---- MODULE Spec2Model ----
(***************************************************************************)
(* Cor: cardiovascular stress scoring (css-engine), the health routes that *)
(* feed it from the store, the rPPG detector and the first-reading page.   *)
(***************************************************************************)
EXTENDS Integers, Sequences, FiniteSets, TLC

(***************************************************************************)
(* Bounds of the model.                                                    *)
(***************************************************************************)
\* longest reading history built by POST /api/health/readings
MaxReadings == 6
\* longest reading history of the lifestyle-rich requests
MaxScoreReadings == 2
\* frames processed by one acquisition, past the capacity of the buffer
MaxFrames == 302
\* frames processed while a client polls getResult()
MaxPolledFrames == 92
\* frames processed during a capture of the first-reading page
MaxSessionFrames == 91
\* longest reading history the health context is derived from
MaxContextReadings == 4

\* readings stored before the alert requests, enough for five days of
\* falling HRV in a row
MaxAlertReadings == 6

\* POST /api/health/alert requests of one day
MaxAlertRequests == 2

\* rows of table "readings" while today's reading is updated
MaxDailyReadings == 4

\* readings added to the in-memory store, past the 30 it keeps
MaxMemoryReadings == 32

(***************************************************************************)
(* JavaScript numbers.  A finite number is an exact reduced fraction n/d,  *)
(* the non-finite ones are +Infinity, -Infinity and NaN.                    *)
(***************************************************************************)
Abs(x) == IF x < 0 THEN -x ELSE x

RECURSIVE GCD(_, _)
GCD(a, b) == IF b = 0 THEN a ELSE GCD(b, a % b)

JNum(n, d) ==
    LET g == GCD(Abs(n), d)
    IN  IF n = 0 THEN [k |-> "num", n |-> 0, d |-> 1]
        ELSE [k |-> "num", n |-> n \div g, d |-> d \div g]

J(i) == [k |-> "num", n |-> i, d |-> 1]
JInf(sign) == [k |-> "inf", n |-> sign, d |-> 1]
JNaN == [k |-> "nan", n |-> 0, d |-> 1]

Sign(i) == IF i > 0 THEN 1 ELSE IF i < 0 THEN -1 ELSE 0

isFinite(x) == x.k = "num"
isNaN(x) == x.k = "nan"
IsInteger(x) == x.k = "num" /\ x.d = 1

JNeg(x) == IF x.k = "nan" THEN x ELSE [x EXCEPT !.n = -x.n]

JAdd(x, y) ==
    IF x.k = "nan" \/ y.k = "nan" THEN JNaN
    ELSE IF x.k = "inf" THEN (IF y.k = "inf" /\ y.n # x.n THEN JNaN ELSE x)
    ELSE IF y.k = "inf" THEN y
    ELSE LET g == GCD(x.d, y.d)
             l == (x.d \div g) * y.d
         IN  JNum(x.n * (l \div x.d) + y.n * (l \div y.d), l)

JSub(x, y) == JAdd(x, JNeg(y))

JMul(x, y) ==
    IF x.k = "nan" \/ y.k = "nan" THEN JNaN
    ELSE IF x.k = "inf" \/ y.k = "inf"
         THEN (IF x.n = 0 \/ y.n = 0 THEN JNaN ELSE JInf(Sign(x.n) * Sign(y.n)))
    ELSE LET g1 == GCD(Abs(x.n), y.d)
             g2 == GCD(Abs(y.n), x.d)
             a == IF x.n = 0 THEN 0 ELSE x.n \div g1
             b == IF y.n = 0 THEN 0 ELSE y.n \div g2
             c == IF x.n = 0 THEN 1 ELSE y.d \div g1
             e == IF y.n = 0 THEN 1 ELSE x.d \div g2
         IN  JNum(a * b, c * e)

JDiv(x, y) ==
    IF x.k = "nan" \/ y.k = "nan" THEN JNaN
    ELSE IF y.k = "inf" THEN (IF x.k = "inf" THEN JNaN ELSE J(0))
    ELSE IF y.n = 0 THEN (IF x.n = 0 THEN JNaN ELSE JInf(Sign(x.n)))
    ELSE IF x.k = "inf" THEN JInf(Sign(x.n) * Sign(y.n))
    ELSE JMul(x, JNum(Sign(y.n) * y.d, Abs(y.n)))

\* x < y; every comparison with NaN is false
JLt(x, y) ==
    IF x.k = "nan" \/ y.k = "nan" THEN FALSE
    ELSE IF x.k = "inf" THEN x.n < 0 /\ ~(y.k = "inf" /\ y.n < 0)
    ELSE IF y.k = "inf" THEN y.n > 0
    ELSE x.n * y.d < y.n * x.d

JGt(x, y) == JLt(y, x)
JGe(x, y) == ~(x.k = "nan" \/ y.k = "nan") /\ ~JLt(x, y)
JLe(x, y) == JGe(y, x)

\* Math.min / Math.max: NaN when an argument is NaN
MathMin(x, y) ==
    IF x.k = "nan" \/ y.k = "nan" THEN JNaN ELSE IF JLt(y, x) THEN y ELSE x

MathMax(x, y) ==
    IF x.k = "nan" \/ y.k = "nan" THEN JNaN ELSE IF JLt(x, y) THEN y ELSE x

\* Math.round: nearest integer, halves towards +Infinity
MathRound(x) ==
    IF x.k # "num" THEN x ELSE J((2 * x.n + x.d) \div (2 * x.d))

(***************************************************************************)
(* Optional fields: << >> when the field is absent, <<v>> when present.    *)
(***************************************************************************)
Absent == << >>
Some(v) == <<v>>
\* the truthiness test of `x ? a : b` and `x || d` on an optional number
Truthy(o) == o # Absent /\ o[1].k # "nan" /\ o[1].n # 0

(***************************************************************************)
(* Array helpers with the semantics of Array.prototype.slice / reduce.     *)
(***************************************************************************)
Min2(a, b) == IF a < b THEN a ELSE b
Max2(a, b) == IF a > b THEN a ELSE b

\* zero-based index a slice bound denotes in an array of length len
SliceIndex(i, len) == IF i < 0 THEN Max2(len + i, 0) ELSE Min2(i, len)

\* arr.slice(start, end)
slice(arr, start, end) ==
    SubSeq(arr, SliceIndex(start, Len(arr)) + 1, SliceIndex(end, Len(arr)))

\* arr.slice(start)
sliceFrom(arr, start) == slice(arr, start, Len(arr))

\* arr.reduce((a, b) => a + b.hrv, 0)
RECURSIVE SumHrv(_)
SumHrv(arr) ==
    IF arr = << >> THEN J(0)
    ELSE JAdd(SumHrv(SubSeq(arr, 1, Len(arr) - 1)), arr[Len(arr)].hrv)

(***************************************************************************)
(* css-engine: calculateCSS(readings, baseline)                            *)
(***************************************************************************)
ALERT_SCORE == 65
ALERT_DAYS == 5

\* for (i = length - 1; i > 0; i--) if (r[i].hrv < r[i-1].hrv) n++ else break
\* i is the zero-based loop index
RECURSIVE CountWorsening(_, _)
CountWorsening(readings, i) ==
    IF i > 0 /\ JLt(readings[i + 1].hrv, readings[i].hrv)
    THEN 1 + CountWorsening(readings, i - 1)
    ELSE 0

hrvDeltaOf(latest, baseline) ==
    JMul(JDiv(JSub(latest.hrv, baseline.hrv), baseline.hrv), J(100))

hrvScoreOf(hrvDelta) == MathMax(J(0), MathMin(J(100), JSub(J(50), hrvDelta)))

sedentaryScoreOf(latest) ==
    MathMin(J(100), JMul(JDiv(latest.sedentaryHours, J(12)), J(100)))

sleepScoreOf(latest) ==
    MathMax(J(0), JMul(JSub(J(1), JDiv(latest.sleepQuality, J(10))), J(100)))

foodScoreOf(latest) ==
    IF Truthy(latest.foodImpact) THEN JMul(latest.foodImpact[1], J(10)) ELSE J(0)

screenScoreOf(latest) ==
    IF Truthy(latest.screenStressIndex)
    THEN JMul(latest.screenStressIndex[1], J(10)) ELSE J(0)

\* compositeScore with the weights of the sedentary and the sleep component
\* exchanged
compositeScore_WeightsExchanged(hrvScore, sedentaryScore, sleepScore, foodScore, screenScore) ==
    MathRound(
        JAdd(JAdd(JAdd(JAdd(JMul(hrvScore, JNum(35, 100)),
                            JMul(sedentaryScore, JNum(2, 10))),
                       JMul(sleepScore, JNum(25, 100))),
                  JMul(foodScore, JNum(12, 100))),
             JMul(screenScore, JNum(8, 100))))

compositeScore(hrvScore, sedentaryScore, sleepScore, foodScore, screenScore) ==
    MathRound(
        JAdd(JAdd(JAdd(JAdd(JMul(hrvScore, JNum(35, 100)),
                            JMul(sedentaryScore, JNum(25, 100))),
                       JMul(sleepScore, JNum(2, 10))),
                  JMul(foodScore, JNum(12, 100))),
             JMul(screenScore, JNum(8, 100))))

\* trendOf with the 5 % marks counted as a change
trendOf_AtFivePercent(recent, prior) ==
    LET recentAvg == JDiv(SumHrv(recent), J(Len(recent)))
        priorAvg == JDiv(SumHrv(prior), J(Len(prior)))
        change == JMul(JDiv(JSub(recentAvg, priorAvg), priorAvg), J(100))
    IN  IF JLe(change, J(-5)) THEN "worsening"
        ELSE IF JGe(change, J(5)) THEN "improving"
        ELSE "stable"

trendOf(recent, prior) ==
    LET recentAvg == JDiv(SumHrv(recent), J(Len(recent)))
        priorAvg == JDiv(SumHrv(prior), J(Len(prior)))
        change == JMul(JDiv(JSub(recentAvg, priorAvg), priorAvg), J(100))
    IN  IF JLt(change, J(-5)) THEN "worsening"
        ELSE IF JGt(change, J(5)) THEN "improving"
        ELSE "stable"

\* worseningDays is counted inside the `prior.length > 0` branch only
worseningDaysOf(readings, recent, prior) ==
    IF Len(prior) > 0 /\ Len(recent) > 0
    THEN CountWorsening(readings, Len(readings) - 1)
    ELSE 0

shouldAlertOf_EitherCondition(score, worseningDays) ==
    JGt(score, J(ALERT_SCORE)) \/ worseningDays >= ALERT_DAYS

shouldAlertOf(score, worseningDays) ==
    JGt(score, J(ALERT_SCORE)) /\ worseningDays >= ALERT_DAYS

emptyCSS_NeutralPivot ==
    [score |-> J(50), trend |-> "stable", worseningDays |-> 0,
     shouldAlert |-> FALSE, hrvDelta |-> J(0)]

emptyCSS ==
    [score |-> J(0), trend |-> "stable", worseningDays |-> 0,
     shouldAlert |-> FALSE, hrvDelta |-> J(0)]

calculateCSS(readings, baseline) ==
    IF Len(readings) = 0 THEN emptyCSS
    ELSE
    LET latest == readings[Len(readings)]
        hrvDelta == hrvDeltaOf(latest, baseline)
        hrvScore == hrvScoreOf(hrvDelta)
        score == compositeScore(hrvScore, sedentaryScoreOf(latest),
                                sleepScoreOf(latest), foodScoreOf(latest),
                                screenScoreOf(latest))
        recent == sliceFrom(readings, -3)
        prior == slice(readings, -6, -3)
        trend == IF Len(prior) > 0 /\ Len(recent) > 0
                 THEN trendOf(recent, prior) ELSE "stable"
        worseningDays == worseningDaysOf(readings, recent, prior)
    IN  [score |-> score, trend |-> trend, worseningDays |-> worseningDays,
         shouldAlert |-> shouldAlertOf(score, worseningDays),
         hrvDelta |-> MathRound(hrvDelta)]

(***************************************************************************)
(* css-engine: getHealthContext(readings, baseline | null)                 *)
(***************************************************************************)
\* neutralContext with the sleepQuality of a sleepless night
neutralContext_NoSleep ==
    [css |-> J(0), trend |-> "stable", hrv |-> J(0), hrvBaseline |-> J(0),
     hrvDelta |-> J(0), sedentaryHours |-> J(0), sleepQuality |-> J(0),
     worseningDays |-> 0]

neutralContext ==
    [css |-> J(0), trend |-> "stable", hrv |-> J(0), hrvBaseline |-> J(0),
     hrvDelta |-> J(0), sedentaryHours |-> J(0), sleepQuality |-> J(5),
     worseningDays |-> 0]

\* getHealthContext scoring the latest reading on its own
getHealthContext_LatestAlone(readings, baseline) ==
    IF baseline = Absent \/ Len(readings) = 0 THEN neutralContext
    ELSE
    LET latest == readings[Len(readings)]
        css == calculateCSS(<<latest>>, baseline[1])
    IN  [css |-> css.score, trend |-> css.trend, hrv |-> latest.hrv,
         hrvBaseline |-> baseline[1].hrv, hrvDelta |-> css.hrvDelta,
         sedentaryHours |-> latest.sedentaryHours,
         sleepQuality |-> latest.sleepQuality,
         worseningDays |-> css.worseningDays,
         screenStressIndex |-> IF Truthy(latest.screenStressIndex)
                               THEN latest.screenStressIndex[1] ELSE J(0)]

\* baseline is Absent (null) or Some(row)
getHealthContext(readings, baseline) ==
    IF baseline = Absent \/ Len(readings) = 0 THEN neutralContext
    ELSE
    LET latest == readings[Len(readings)]
        css == calculateCSS(readings, baseline[1])
    IN  [css |-> css.score, trend |-> css.trend, hrv |-> latest.hrv,
         hrvBaseline |-> baseline[1].hrv, hrvDelta |-> css.hrvDelta,
         sedentaryHours |-> latest.sedentaryHours,
         sleepQuality |-> latest.sleepQuality,
         worseningDays |-> css.worseningDays,
         screenStressIndex |-> IF Truthy(latest.screenStressIndex)
                               THEN latest.screenStressIndex[1] ELSE J(0)]

(***************************************************************************)
(* rppg-detection.ts: signal arithmetic.  The numbers of the signal path   *)
(* are fixed-point, FX units to one: 12800 is 128.00.                      *)
(***************************************************************************)
FX == 100

SAMPLE_RATE == 30
MIN_SAMPLES == 90
MAX_SAMPLES == 300

FxMul(a, b) == (a * b) \div FX
FxDiv(a, b) == (a * FX) \div b

\* the largest r with r * r <= n, searched between lo and hi
RECURSIVE ISqrtBetween(_, _, _)
ISqrtBetween(n, lo, hi) ==
    IF lo >= hi THEN lo
    ELSE LET mid == (lo + hi + 1) \div 2
         IN  IF mid * mid <= n THEN ISqrtBetween(n, mid, hi)
             ELSE ISqrtBetween(n, lo, mid - 1)

ISqrt(n) == ISqrtBetween(n, 0, 46340)

\* Math.sqrt
FxSqrt(a) == ISqrt(a * FX)

\* signal.reduce((a, b) => a + b, 0) over positions lo..hi, summed by
\* halves
RECURSIVE SumRange(_, _, _)
SumRange(signal, lo, hi) ==
    IF lo > hi THEN 0
    ELSE IF lo = hi THEN signal[lo]
    ELSE LET mid == (lo + hi) \div 2
         IN  SumRange(signal, lo, mid) + SumRange(signal, mid + 1, hi)

Sum(signal) == SumRange(signal, 1, Len(signal))

\* signal.reduce((sum, val) => sum + Math.pow(val - mean, 2), 0) over
\* positions lo..hi, summed by halves
RECURSIVE SumSquares(_, _, _, _)
SumSquares(signal, mean, lo, hi) ==
    IF lo > hi THEN 0
    ELSE IF lo = hi THEN FxMul(signal[lo] - mean, signal[lo] - mean)
    ELSE LET mid == (lo + hi) \div 2
         IN  SumSquares(signal, mean, lo, mid)
             + SumSquares(signal, mean, mid + 1, hi)

\* the standard deviation both strength measures are built on
StdDev(signal) ==
    LET mean == Sum(signal) \div Len(signal)
        variance == SumSquares(signal, mean, 1, Len(signal)) \div Len(signal)
    IN  FxSqrt(variance)

\* calculateCurrentSignalStrength() measuring from 5 samples on
calculateCurrentSignalStrength_FromFiveSamples(signalHistory) ==
    IF Len(signalHistory) < 5 THEN 0
    ELSE LET recent == sliceFrom(signalHistory, -30)
         IN  Min2(FX, FxDiv(StdDev(recent), 5 * FX))

\* calculateCurrentSignalStrength()
calculateCurrentSignalStrength(signalHistory) ==
    IF Len(signalHistory) < 10 THEN 0
    ELSE LET recent == sliceFrom(signalHistory, -30)
         IN  Min2(FX, FxDiv(StdDev(recent), 5 * FX))

\* bandpassFilter(signal, lowFreq, highFreq, sampleRate); the frequencies
\* are given in tenths of a hertz
bandpassFilter(signal, lowFreq, highFreq, sampleRate) ==
    LET windowSize == (sampleRate * 10) \div lowFreq
    IN  [i \in 1..Len(signal) |->
            LET lo == Max2(1, i - windowSize)
                hi == Min2(Len(signal), i + windowSize)
            IN  SumRange(signal, lo, hi) \div (hi - lo + 1)]

\* calculateHRV with the scaled value returned as it is, without
\* Math.max(20, Math.min(100, hrv))
calculateHRV_Unbounded(signal) ==
    IF Len(signal) < 2 THEN 50 * FX
    ELSE LET differences ==
                 [i \in 1..(Len(signal) - 1) |-> Abs(signal[i + 1] - signal[i])]
             rmssd == StdDev(differences)
         IN  20 * FX + rmssd * 80

\* calculateHRV(signal)
calculateHRV(signal) ==
    IF Len(signal) < 2 THEN 50 * FX
    ELSE LET differences ==
                 [i \in 1..(Len(signal) - 1) |-> Abs(signal[i + 1] - signal[i])]
             rmssd == StdDev(differences)
             hrv == 20 * FX + rmssd * 80
         IN  Max2(20 * FX, Min2(100 * FX, hrv))

\* calculateConfidence(signal)
calculateConfidence(signal) ==
    IF Len(signal) < 10 THEN 0
    ELSE Min2(FX, FxDiv(StdDev(signal), 10 * FX))

\* Math.round of a non-negative fixed-point number, as an integer
FxRound(a) == (2 * a + FX) \div (2 * FX)

\* Math.sin(2 * Math.PI * a / b), by Bhaskara's rational approximation
SinTurn(a, b) ==
    LET m == a % b
        p == IF 2 * m < b THEN 2 * m ELSE 2 * m - b
        v == (16 * FX * p * (b - p)) \div (5 * b * b - 4 * p * (b - p))
    IN  IF 2 * m < b THEN v ELSE -v

\* Math.cos(2 * Math.PI * a / b)
CosTurn(a, b) == SinTurn(4 * a + b, 4 * b)

\* real += signal[j] * Math.cos(angle) for j = lo-1..hi-1, with
\* angle = 2 PI k j / n, summed by halves
RECURSIVE RealPart(_, _, _, _)
RealPart(signal, k, lo, hi) ==
    IF lo > hi THEN 0
    ELSE IF lo = hi
    THEN FxMul(signal[lo], CosTurn(k * (lo - 1), Len(signal)))
    ELSE LET mid == (lo + hi) \div 2
         IN  RealPart(signal, k, lo, mid) + RealPart(signal, k, mid + 1, hi)

\* imag -= signal[j] * Math.sin(angle)
RECURSIVE ImagPart(_, _, _, _)
ImagPart(signal, k, lo, hi) ==
    IF lo > hi THEN 0
    ELSE IF lo = hi
    THEN 0 - FxMul(signal[lo], SinTurn(k * (lo - 1), Len(signal)))
    ELSE LET mid == (lo + hi) \div 2
         IN  ImagPart(signal, k, lo, mid) + ImagPart(signal, k, mid + 1, hi)

\* simpleFFT(signal): the magnitude of bin k for each k < n / 2, in whole
\* units; position k + 1 holds bin k
simpleFFT(signal) ==
    [i \in 1..((Len(signal) + 1) \div 2) |->
        LET real == RealPart(signal, i - 1, 1, Len(signal)) \div FX
            imag == ImagPart(signal, i - 1, 1, Len(signal)) \div FX
        IN  ISqrt(real * real + imag * imag)]

\* freqs[i] >= 0.7 && freqs[i] <= 4.0, where freqs[i] = i * sampleRate / n
InPassband(i, n, sampleRate) ==
    i * sampleRate * 10 >= 7 * n /\ i * sampleRate * 10 <= 40 * n

\* the loop of findDominantFrequency from bin i on; dominant is the bin
\* chosen so far, -1 while it is the 1.2 Hz default
RECURSIVE ScanBins_LastPeakWins(_, _, _, _, _)
ScanBins_LastPeakWins(fft, n, sampleRate, i, best) ==
    IF i >= (n + 1) \div 2 THEN best.dominant
    ELSE IF InPassband(i, n, sampleRate) /\ fft[i + 1] >= best.maxPower
         THEN ScanBins_LastPeakWins(fft, n, sampleRate, i + 1,
                                    [maxPower |-> fft[i + 1], dominant |-> i])
         ELSE ScanBins_LastPeakWins(fft, n, sampleRate, i + 1, best)

RECURSIVE ScanBins(_, _, _, _, _)
ScanBins(fft, n, sampleRate, i, best) ==
    IF i >= (n + 1) \div 2 THEN best.dominant
    ELSE IF InPassband(i, n, sampleRate) /\ fft[i + 1] > best.maxPower
         THEN ScanBins(fft, n, sampleRate, i + 1,
                       [maxPower |-> fft[i + 1], dominant |-> i])
         ELSE ScanBins(fft, n, sampleRate, i + 1, best)

\* findDominantFrequency(signal, sampleRate), in beats per minute
findDominantFrequency(signal, sampleRate) ==
    LET n == Len(signal)
        dominant == ScanBins(simpleFFT(signal), n, sampleRate, 0,
                             [maxPower |-> 0, dominant |-> -1])
    IN  IF dominant = -1 THEN (12 * FX * 60) \div 10
        ELSE (dominant * sampleRate * FX * 60) \div n

\* getResult(): null below MIN_SAMPLES, else the DetectionResult
NoDetection == [found |-> FALSE, hrv |-> 0, heartRate |-> 0,
                confidence |-> 0, signalStrength |-> 0]

\* getResult() refusing a buffer of exactly MIN_SAMPLES samples
getResult_AboveMinSamples(signalHistory) ==
    IF Len(signalHistory) <= MIN_SAMPLES THEN NoDetection
    ELSE LET filtered == bandpassFilter(signalHistory, 7, 40, SAMPLE_RATE)
         IN  [found |-> TRUE,
              hrv |-> FxRound(calculateHRV(filtered)),
              heartRate |-> FxRound(findDominantFrequency(filtered, SAMPLE_RATE)),
              confidence |-> Min2(calculateConfidence(filtered), FX),
              signalStrength |-> calculateCurrentSignalStrength(signalHistory)]

getResult(signalHistory) ==
    IF Len(signalHistory) < MIN_SAMPLES THEN NoDetection
    ELSE LET filtered == bandpassFilter(signalHistory, 7, 40, SAMPLE_RATE)
         IN  [found |-> TRUE,
              hrv |-> FxRound(calculateHRV(filtered)),
              heartRate |-> FxRound(findDominantFrequency(filtered, SAMPLE_RATE)),
              confidence |-> Min2(calculateConfidence(filtered), FX),
              signalStrength |-> calculateCurrentSignalStrength(signalHistory)]

(***************************************************************************)
(* State.  One user; the store is the `readings` and `baselines` tables.   *)
(***************************************************************************)
VARIABLES
    readingsTable,   \* rows of table "readings", in insertion order
    baselineRow,     \* Absent, or Some(row) of table "baselines"
    bpReadingsTable, \* rows of table "bp_readings", in insertion order
    today,           \* the server's current date, as a day number
    response,        \* the response of the last request handled
    dailyAlertsTable,\* Absent, or Some(has_alerted) of the user's row of today
    alertRequests,   \* the POST /api/health/alert requests, by arrival
    alertsGenerated, \* alert messages generateProactiveAlert returned today
    memoryReadings,  \* Absent, or Some(list) the in-memory store maps the user to
    memoryResult,    \* what getReadings of the in-memory store returned last
    scene,           \* what the camera looks at
    videoReady,      \* video.readyState === HAVE_ENOUGH_DATA
    detector,        \* the fields of the RPPGDetector
    startPc,         \* where the pending start() call stands
    lastCall,        \* the last of start() and stop() called on the detector
    detection,       \* what getResult() returned, if a client's call was the last step
    task,            \* the detector's callbacks begun and not yet returned
    page,            \* the state and refs of FirstReadingPage
    request          \* the readingMutation of the page and its request

storeVars == <<readingsTable, baselineRow, bpReadingsTable>>
alertVars == <<dailyAlertsTable, alertRequests, alertsGenerated>>
memoryVars == <<memoryReadings, memoryResult>>
serverVars == <<readingsTable, baselineRow, bpReadingsTable, today, response,
                dailyAlertsTable, alertRequests, alertsGenerated,
                memoryReadings, memoryResult>>
deviceVars == <<scene, videoReady, detector, startPc, lastCall, detection,
                task>>
clientVars == <<scene, videoReady, detector, startPc, lastCall, detection,
                task, page, request>>
vars == <<readingsTable, baselineRow, bpReadingsTable, today, response,
          dailyAlertsTable, alertRequests, alertsGenerated,
          memoryReadings, memoryResult,
          scene, videoReady, detector, startPc, lastCall, detection, task,
          page, request>>

NoResponse == [route |-> "none", status |-> 0, code |-> "", data |-> << >>]

(***************************************************************************)
(* store/data-store.ts: SupabaseStore                                      *)
(***************************************************************************)
\* insert into readings
addReading(table, reading) == Append(table, reading)

\* .order("date", { ascending: true }): rows by date, equal dates in
\* insertion order
RECURSIVE InsertByDate(_, _)
InsertByDate(sorted, row) ==
    IF sorted = << >> THEN <<row>>
    ELSE IF sorted[Len(sorted)].date <= row.date THEN Append(sorted, row)
    ELSE Append(InsertByDate(SubSeq(sorted, 1, Len(sorted) - 1), row),
                sorted[Len(sorted)])

RECURSIVE OrderByDate(_)
OrderByDate(rows) ==
    IF rows = << >> THEN << >>
    ELSE InsertByDate(OrderByDate(SubSeq(rows, 1, Len(rows) - 1)),
                      rows[Len(rows)])

\* getReadings(userId) without the days filter
getReadings(table) == OrderByDate(table)

\* upsert on user_id
setBaseline(row) == Some(row)

getBaseline(row) == row

\* select has_alerted of the row of (user, today); no row reads as false
getHasAlertedToday(table) == table # Absent /\ table[1]

\* upsert on (user_id, date)
setHasAlertedToday(table, value) == Some(value)

(***************************************************************************)
(* store/data-store.ts: DataStore, the in-memory store.  memoryReadings is *)
(* the entry of the one known user in the map `readings`.                  *)
(***************************************************************************)
\* readings a user's list is cut to
KEPT_READINGS == 30

\* this.readings.get(userId) || []
DataStore_get(entry, userId) ==
    IF userId = "u1" /\ entry # Absent THEN entry[1] ELSE << >>

\* addReading(userId, reading): the list stored for the user
DataStore_addReading(entry, userId, reading) ==
    sliceFrom(Append(DataStore_get(entry, userId), reading), -KEPT_READINGS)

\* getReadings(userId, days), days being Absent or Some(n)
DataStore_getReadings(entry, userId, days) ==
    LET allReadings == DataStore_get(entry, userId)
    IN  IF days # Absent /\ days[1] # 0
        THEN sliceFrom(allReadings, -days[1])
        ELSE allReadings

NoMemoryResult ==
    [called |-> FALSE, userId |-> "", days |-> Absent, value |-> << >>]

(***************************************************************************)
(* rppg-detection.ts: class RPPGDetector                                   *)
(***************************************************************************)
\* the fields after construction; animationFrame is TRUE while a
\* requestAnimationFrame callback is pending
NewDetector ==
    [isRunning |-> FALSE, signalHistory |-> << >>, frameCount |-> 0,
     stream |-> "null", animationFrame |-> FALSE]

NoCall ==
    [called |-> FALSE, samples |-> 0, afterStop |-> FALSE,
     result |-> NoDetection]

\* no callback of the detector is in progress; reads are the buffers that the
\* getResult() call begun last has read, strengthRead the buffer that
\* processFrames() read last for the signal strength
NoTask ==
    [frame |-> "idle", poll |-> "idle", reads |-> << >>,
     strengthRead |-> << >>, partial |-> NoDetection]

Scenes == {"flat", "pulse", "drift", "cover"}

\* avgRed of the frame with index i under each scene: an uncovered lens, a
\* 1.2 Hz pulse, a finger drifting over the lens, a finger put on the lit
\* lens after 45 frames
Scene(s, i) ==
    IF s = "pulse" THEN FX * (120 + (IF i % 25 < 12 THEN 8 ELSE 0))
    ELSE IF s = "cover" THEN FX * (IF i < 45 THEN 10 ELSE 250)
    ELSE IF s = "drift"
         THEN FX * (100 + (IF i % 120 < 60 THEN i % 120 ELSE 120 - (i % 120)))
    ELSE FX * 128

\* processFrames() evicting as soon as the buffer is full
processFrames_EvictsAtCapacity(d) ==
    IF ~d.isRunning THEN d
    ELSE IF ~videoReady THEN [d EXCEPT !.animationFrame = TRUE]
    ELSE LET avgRed == Scene(scene, d.frameCount)
             pushed == Append(d.signalHistory, avgRed)
         IN  [d EXCEPT !.signalHistory = IF Len(pushed) >= MAX_SAMPLES
                                         THEN Tail(pushed) ELSE pushed,
                       !.frameCount = d.frameCount + 1,
                       !.animationFrame = TRUE]

\* processFrames(): the detector after the call
processFrames(d) ==
    IF ~d.isRunning THEN d
    ELSE IF ~videoReady THEN [d EXCEPT !.animationFrame = TRUE]
    ELSE LET avgRed == Scene(scene, d.frameCount)
             pushed == Append(d.signalHistory, avgRed)
         IN  [d EXCEPT !.signalHistory = IF Len(pushed) > MAX_SAMPLES
                                         THEN Tail(pushed) ELSE pushed,
                       !.frameCount = d.frameCount + 1,
                       !.animationFrame = TRUE]

\* processFrames() got as far as the callbacks
FrameProcessed(d) == d.isRunning /\ videoReady

\* stop(): the detector after the call
stop(d) ==
    [d EXCEPT !.isRunning = FALSE, !.animationFrame = FALSE, !.stream = "null"]

(***************************************************************************)
(* Requests.                                                               *)
(***************************************************************************)
User == "u1"

HrvValues == {20, 30, 40, 50, 60, 70, 80, 90}
BaselineHrvValues == {0, 40, 60}

Stressed ==
    [sedentaryHours |-> J(12), sleepQuality |-> J(0),
     screenStressIndex |-> Absent, foodImpact |-> Absent]

Calm ==
    [sedentaryHours |-> J(4), sleepQuality |-> J(8),
     screenStressIndex |-> Some(J(2)), foodImpact |-> Some(JNum(1, 10))]

HistoryLifestyles == {Stressed}

ReadingBody(userId, date, hrv, life) ==
    [userId |-> userId, date |-> date, hrv |-> hrv, heartRate |-> Absent,
     sedentaryHours |-> life.sedentaryHours, sleepQuality |-> life.sleepQuality,
     screenStressIndex |-> life.screenStressIndex,
     foodImpact |-> life.foodImpact]

LastDate(table) == IF table = << >> THEN 0 ELSE table[Len(table)].date

\* finite and non-negative, beyond the documented ranges
Extreme ==
    [sedentaryHours |-> J(16), sleepQuality |-> J(0),
     screenStressIndex |-> Some(J(100)), foodImpact |-> Some(JNum(8, 10))]

\* a negative sedentaryHours, which readingValidation lets through
Negative ==
    [sedentaryHours |-> J(-6), sleepQuality |-> J(10),
     screenStressIndex |-> Absent, foodImpact |-> Absent]

ScoreLifestyles == {Stressed, Calm, Extreme, Negative}

DailyChanges == {-10, 0, 10}

\* requests rejected before the store is touched
RejectedBodies ==
    { ReadingBody(Absent, Absent, J(50), Stressed),
      [ReadingBody(Some(User), Absent, J(50), Stressed)
          EXCEPT !.sleepQuality = J(11)] }

\* one reading a day on consecutive days, the HRV moving by one of
\* DailyChanges from one day to the next
HistoryBodies(table) ==
    { ReadingBody(Some(User), Some(LastDate(table) + 1), J(h), life) :
        h \in { v \in HrvValues :
                  table = << >> \/
                  (v - table[Len(table)].hrv.n) \in DailyChanges },
        life \in HistoryLifestyles }
    \cup RejectedBodies

\* one reading a day, every HRV value with every lifestyle
ScoreBodies(table) ==
    { ReadingBody(Some(User), Some(LastDate(table) + 1), J(h), life) :
        h \in HrvValues, life \in ScoreLifestyles }
    \cup RejectedBodies

BaselineBodies ==
    { [userId |-> Some(User),
       baseline |-> [hrv |-> J(h), sedentaryHours |-> J(5),
                     sleepQuality |-> J(7), screenStressIndex |-> Absent]] :
        h \in BaselineHrvValues }
    \cup { [userId |-> Absent,
            baseline |-> [hrv |-> J(60), sedentaryHours |-> J(5),
                          sleepQuality |-> J(7), screenStressIndex |-> Absent]] }

Queries == { [userId |-> Some(User)], [userId |-> Absent] }

\* days of falling HRV under a stressed lifestyle, one reading a day
AlertBodies(table) ==
    { ReadingBody(Some(User), Some(LastDate(table) + 1),
                  J(80 - 10 * Len(table)), Stressed) }

\* the reading of yesterday or of today (no date in the body), posted once
\* a day
DailyBodies(table) ==
    { ReadingBody(Some(User), date, J(h), life) :
        date \in { d \in {Some(0), Absent} :
                     \A i \in 1..Len(table) :
                        table[i].date # (IF d = Absent THEN today ELSE d[1]) },
        h \in {40, 80}, life \in {Stressed, Calm} }

\* what the user said about the night, with and without a userId, and a
\* request without its transcript
SleepBodies ==
    { [transcript |-> "slept badly", language |-> "en", userId |-> Some(User)],
      [transcript |-> "slept badly", language |-> "en", userId |-> Absent],
      [transcript |-> "", language |-> "en", userId |-> Some(User)] }

\* what extractSleepQuality returns, 5 being its answer when the service
\* fails: it clamps to 0..10 and never throws
SleepExtractions == {J(3), J(5), J(9)}

AlertBaselines ==
    { [userId |-> Some(User),
       baseline |-> [hrv |-> J(60), sedentaryHours |-> J(5),
                     sleepQuality |-> J(7), screenStressIndex |-> Absent]] }

ContextHrvValues == {40, 80}

\* a screenStressIndex of 0, which `||` treats like a missing one
ScreenOff ==
    [sedentaryHours |-> J(8), sleepQuality |-> J(6),
     screenStressIndex |-> Some(J(0)), foodImpact |-> Absent]

ContextLifestyles == {Stressed, Calm, ScreenOff}

\* one reading a day, every context HRV value with every context lifestyle
ContextBodies(table) ==
    { ReadingBody(Some(User), Some(LastDate(table) + 1), J(h), life) :
        h \in ContextHrvValues, life \in ContextLifestyles }
    \cup RejectedBodies

\* a question asked by a signed-in user, one asked with a context of the
\* client's own, and one without its transcript
RespondBodies ==
    { [transcript |-> "how am I doing", language |-> "en",
       healthContext |-> Absent, userId |-> Some(User)],
      [transcript |-> "how am I doing", language |-> "en",
       healthContext |-> Some(neutralContext), userId |-> Absent],
      [transcript |-> "", language |-> "en",
       healthContext |-> Absent, userId |-> Some(User)] }

(***************************************************************************)
(* middleware/validation: readingValidation                                *)
(***************************************************************************)
readingValidation(body) ==
    /\ isFinite(body.hrv)
    /\ isFinite(body.sedentaryHours)
    /\ IsInteger(body.sleepQuality)
    /\ JGe(body.sleepQuality, J(0)) /\ JLe(body.sleepQuality, J(10))

(***************************************************************************)
(* routes/health.routes.ts                                                 *)
(***************************************************************************)
Reply(route, status, code, data) ==
    [route |-> route, status |-> status, code |-> code, data |-> data]

\* POST /api/health/readings
PostReading(body) ==
    /\ IF ~readingValidation(body)
       THEN /\ response' = Reply("readings", 400, "VALIDATION_ERROR", << >>)
            /\ UNCHANGED storeVars
       ELSE IF body.userId = Absent
       THEN /\ response' = Reply("readings", 400, "MISSING_USER_ID", << >>)
            /\ UNCHANGED storeVars
       ELSE LET reading ==
                  [date |-> IF body.date # Absent THEN body.date[1] ELSE today,
                   hrv |-> body.hrv, heartRate |-> body.heartRate,
                   sedentaryHours |-> body.sedentaryHours,
                   sleepQuality |-> body.sleepQuality,
                   screenStressIndex |-> body.screenStressIndex,
                   foodImpact |-> body.foodImpact]
            IN  /\ readingsTable' = addReading(readingsTable, reading)
                /\ response' = Reply("readings", 200, "", <<reading>>)
                /\ UNCHANGED <<baselineRow, bpReadingsTable>>
    /\ UNCHANGED <<alertVars, memoryVars, today, clientVars>>

\* POST /api/health/baseline
PostBaseline(body) ==
    /\ IF body.userId = Absent
       THEN /\ response' = Reply("baseline", 400, "MISSING_USER_ID", << >>)
            /\ UNCHANGED storeVars
       ELSE LET baselineData ==
                  [hrv |-> body.baseline.hrv,
                   sedentaryHours |-> body.baseline.sedentaryHours,
                   sleepQuality |-> body.baseline.sleepQuality,
                   screenStressIndex |-> body.baseline.screenStressIndex]
            IN  /\ baselineRow' = setBaseline(baselineData)
                /\ response' = Reply("baseline", 200, "", <<baselineData>>)
                /\ UNCHANGED <<readingsTable, bpReadingsTable>>
    /\ UNCHANGED <<alertVars, memoryVars, today, clientVars>>

\* GET /api/health/css with a calculateCSS that pops the latest reading off
\* the list it is given, the list being the store's own
GetCSS_ConsumesReadings(query) ==
    /\ IF query.userId = Absent
       THEN /\ response' = Reply("css", 400, "MISSING_USER_ID", << >>)
            /\ UNCHANGED storeVars
       ELSE LET readings == getReadings(readingsTable)
                baseline == getBaseline(baselineRow)
            IN  IF baseline = Absent
                THEN /\ response' =
                          Reply("css", 404, "BASELINE_NOT_FOUND", << >>)
                     /\ UNCHANGED storeVars
                ELSE /\ response' =
                          Reply("css", 200, "",
                                <<[css |-> calculateCSS(readings, baseline[1]),
                                   healthContext |->
                                       getHealthContext(readings, baseline)]>>)
                     /\ readingsTable' =
                          SubSeq(readingsTable, 1, Len(readingsTable) - 1)
                     /\ UNCHANGED <<baselineRow, bpReadingsTable>>
    /\ UNCHANGED <<alertVars, memoryVars, today, clientVars>>

\* GET /api/health/css
GetCSS(query) ==
    /\ IF query.userId = Absent
       THEN response' = Reply("css", 400, "MISSING_USER_ID", << >>)
       ELSE LET readings == getReadings(readingsTable)
                baseline == getBaseline(baselineRow)
            IN  IF baseline = Absent
                THEN response' = Reply("css", 404, "BASELINE_NOT_FOUND", << >>)
                ELSE response' =
                       Reply("css", 200, "",
                             <<[css |-> calculateCSS(readings, baseline[1]),
                                healthContext |->
                                    getHealthContext(readings, baseline)]>>)
    /\ UNCHANGED <<storeVars, alertVars, memoryVars, today, clientVars>>

(***************************************************************************)
(* routes/voice.routes.ts: POST /api/voice/respond.  The text of the reply *)
(* comes from generateResponse, a call to an outside service that either   *)
(* answers or throws; the response of the model carries the context and    *)
(* the userId the service was called with.                                 *)
(***************************************************************************)
respondValidation(body) == body.transcript # "" /\ body.language # ""

PostRespond(body, generated) ==
    /\ IF ~respondValidation(body)
       THEN response' = Reply("respond", 400, "VALIDATION_ERROR", << >>)
       ELSE LET context ==
                  IF body.userId # Absent
                  THEN Some(getHealthContext(getReadings(readingsTable),
                                             getBaseline(baselineRow)))
                  ELSE body.healthContext
            IN  IF generated
                THEN response' =
                       Reply("respond", 200, "",
                             <<[context |-> context, userId |-> body.userId]>>)
                ELSE response' =
                       Reply("respond", 500, "RESPONSE_GENERATION_ERROR", << >>)
    /\ UNCHANGED <<storeVars, alertVars, memoryVars, today, clientVars>>

(***************************************************************************)
(* store: getUser.  The users table holds the one user created at          *)
(* onboarding.                                                             *)
(***************************************************************************)
getUser(userId) ==
    IF userId = User THEN Some([id |-> User]) ELSE Absent

(***************************************************************************)
(* routes/utility.routes.ts: POST /api/utility/sleep/extract.  The result  *)
(* comes from extractSleepQuality, a call to an outside service.           *)
(***************************************************************************)
\* readings.find((r) => r.date === today): the first of them, or Absent
RECURSIVE FindByDate(_, _)
FindByDate(readings, date) ==
    IF readings = << >> THEN Absent
    ELSE IF Head(readings).date = date THEN Some(Head(readings))
    ELSE FindByDate(Tail(readings), date)

PostSleepExtract(body, extracted) ==
    /\ IF body.transcript = "" \/ body.language = ""
       THEN /\ response' = Reply("sleep", 400, "MISSING_FIELDS", << >>)
            /\ UNCHANGED storeVars
       ELSE LET todayReading ==
                  IF body.userId = Absent THEN Absent
                  ELSE FindByDate(getReadings(readingsTable), today)
            IN  /\ response' =
                     Reply("sleep", 200, "", <<[sleepQuality |-> extracted]>>)
                /\ IF todayReading = Absent
                   THEN UNCHANGED storeVars
                   ELSE /\ readingsTable' =
                             addReading(readingsTable,
                                        [todayReading[1] EXCEPT
                                            !.sleepQuality = extracted])
                        /\ UNCHANGED <<baselineRow, bpReadingsTable>>
    /\ UNCHANGED <<alertVars, memoryVars, today, clientVars>>

(***************************************************************************)
(* Calls of the in-memory DataStore.                                       *)
(***************************************************************************)
\* the reading of the day after the last one stored
NextReading(entry) ==
    [date |-> LastDate(DataStore_get(entry, User)) + 1, hrv |-> J(50),
     heartRate |-> Absent, sedentaryHours |-> J(5), sleepQuality |-> J(7),
     screenStressIndex |-> Absent, foodImpact |-> Absent]

DataStoreAddReading ==
    /\ memoryReadings' =
         Some(DataStore_addReading(memoryReadings, User,
                                   NextReading(memoryReadings)))
    /\ memoryResult' = NoMemoryResult
    /\ UNCHANGED <<storeVars, alertVars, today, response, clientVars>>

DataStoreGetReadings(userId, days) ==
    /\ memoryResult' =
         [called |-> TRUE, userId |-> userId, days |-> days,
          value |-> DataStore_getReadings(memoryReadings, userId, days)]
    /\ UNCHANGED <<storeVars, alertVars, today, response, clientVars,
                   memoryReadings>>

(***************************************************************************)
(* routes/health.routes.ts: POST /api/health/alert, await by await.  Each  *)
(* request is a record of its position and of the constants of its handler; *)
(* generateProactiveAlert is a call to an outside service that returns a   *)
(* message or throws.                                                      *)
(***************************************************************************)
AlertRequest(userId) ==
    [pc |-> "getReadings", userId |-> userId, readings |-> << >>,
     baseline |-> Absent, user |-> Absent, hasAlerted |-> FALSE,
     reply |-> NoResponse]

\* the handler has answered; its constants are gone
AlertDone(reply) ==
    [pc |-> "done", userId |-> Absent, readings |-> << >>,
     baseline |-> Absent, user |-> Absent, hasAlerted |-> FALSE,
     reply |-> reply]

AlertData(shouldAlert, alreadyAlerted, alerted) ==
    <<[shouldAlert |-> shouldAlert, alreadyAlerted |-> alreadyAlerted,
       alerted |-> alerted]>>

\* the request arrives: the userId test and the call of getReadings
AlertPost(body) ==
    /\ IF body.userId = Absent
       THEN LET reply == Reply("alert", 400, "MISSING_USER_ID", << >>)
            IN  /\ alertRequests' = Append(alertRequests, AlertDone(reply))
                /\ response' = reply
       ELSE /\ alertRequests' =
                 Append(alertRequests, AlertRequest(body.userId[1]))
            /\ UNCHANGED response
    /\ UNCHANGED <<storeVars, dailyAlertsTable, alertsGenerated,
                   memoryVars, today, clientVars>>

\* await dataStore.getReadings(userId) resolves
AlertReadingsRead(i) ==
    /\ alertRequests[i].pc = "getReadings"
    /\ alertRequests' =
         [alertRequests EXCEPT ![i].readings = getReadings(readingsTable),
                               ![i].pc = "getBaseline"]
    /\ UNCHANGED <<storeVars, dailyAlertsTable, alertsGenerated,
                   memoryVars, today, response, clientVars>>

\* await dataStore.getBaseline(userId) resolves
AlertBaselineRead(i) ==
    /\ alertRequests[i].pc = "getBaseline"
    /\ alertRequests' =
         [alertRequests EXCEPT ![i].baseline = getBaseline(baselineRow),
                               ![i].pc = "getUser"]
    /\ UNCHANGED <<storeVars, dailyAlertsTable, alertsGenerated,
                   memoryVars, today, response, clientVars>>

\* await dataStore.getUser(userId) resolves
AlertUserRead(i) ==
    /\ alertRequests[i].pc = "getUser"
    /\ alertRequests' =
         [alertRequests EXCEPT ![i].user = getUser(alertRequests[i].userId),
                               ![i].pc = "getHasAlertedToday"]
    /\ UNCHANGED <<storeVars, dailyAlertsTable, alertsGenerated,
                   memoryVars, today, response, clientVars>>

\* await dataStore.getHasAlertedToday(userId) resolves; the handler runs on
\* to an answer or to the await of import("../services/groq.service")
AlertFlagRead(i) ==
    /\ alertRequests[i].pc = "getHasAlertedToday"
    /\ LET r == alertRequests[i]
           hasAlerted == getHasAlertedToday(dailyAlertsTable)
       IN  IF r.baseline = Absent \/ r.user = Absent
           THEN LET reply == Reply("alert", 404, "NOT_FOUND", << >>)
                IN  /\ alertRequests' =
                         [alertRequests EXCEPT ![i] = AlertDone(reply)]
                    /\ response' = reply
           ELSE IF ~calculateCSS(r.readings, r.baseline[1]).shouldAlert
           THEN LET reply == Reply("alert", 200, "",
                                   AlertData(FALSE, FALSE, FALSE))
                IN  /\ alertRequests' =
                         [alertRequests EXCEPT ![i] = AlertDone(reply)]
                    /\ response' = reply
           ELSE IF hasAlerted
           THEN LET reply == Reply("alert", 200, "",
                                   AlertData(TRUE, TRUE, FALSE))
                IN  /\ alertRequests' =
                         [alertRequests EXCEPT ![i] = AlertDone(reply)]
                    /\ response' = reply
           ELSE /\ alertRequests' =
                     [alertRequests EXCEPT ![i].hasAlerted = hasAlerted,
                                           ![i].pc = "import"]
                /\ UNCHANGED response
    /\ UNCHANGED <<storeVars, dailyAlertsTable, alertsGenerated,
                   memoryVars, today, clientVars>>

\* the import resolves; getHealthContext, and generateProactiveAlert called
AlertImported(i) ==
    /\ alertRequests[i].pc = "import"
    /\ alertRequests' = [alertRequests EXCEPT ![i].pc = "generate"]
    /\ UNCHANGED <<storeVars, dailyAlertsTable, alertsGenerated,
                   memoryVars, today, response, clientVars>>

\* a handler that marks the user as alerted whether or not
\* generateProactiveAlert returned a message
AlertGenerated_MarksAnyway(i, generated) ==
    /\ alertRequests[i].pc = "generate"
    /\ IF generated
       THEN /\ alertRequests' = [alertRequests EXCEPT ![i].pc = "setFlag"]
            /\ alertsGenerated' = alertsGenerated + 1
            /\ UNCHANGED <<response, dailyAlertsTable>>
       ELSE LET reply == Reply("alert", 500, "ALERT_GENERATION_ERROR", << >>)
            IN  /\ alertRequests' =
                     [alertRequests EXCEPT ![i] = AlertDone(reply)]
                /\ response' = reply
                /\ dailyAlertsTable' =
                     setHasAlertedToday(dailyAlertsTable, TRUE)
                /\ UNCHANGED alertsGenerated
    /\ UNCHANGED <<storeVars, memoryVars, today, clientVars>>

\* generateProactiveAlert settles: with a message, and setHasAlertedToday
\* is called, or by throwing, and the catch block answers 500
AlertGenerated(i, generated) ==
    /\ alertRequests[i].pc = "generate"
    /\ IF generated
       THEN /\ alertRequests' = [alertRequests EXCEPT ![i].pc = "setFlag"]
            /\ alertsGenerated' = alertsGenerated + 1
            /\ UNCHANGED response
       ELSE LET reply == Reply("alert", 500, "ALERT_GENERATION_ERROR", << >>)
            IN  /\ alertRequests' =
                     [alertRequests EXCEPT ![i] = AlertDone(reply)]
                /\ response' = reply
                /\ UNCHANGED alertsGenerated
    /\ UNCHANGED <<storeVars, dailyAlertsTable, memoryVars, today, clientVars>>

\* await dataStore.setHasAlertedToday(userId, true) resolves; the answer
\* with the message
AlertFlagSet(i) ==
    /\ alertRequests[i].pc = "setFlag"
    /\ dailyAlertsTable' = setHasAlertedToday(dailyAlertsTable, TRUE)
    /\ LET reply == Reply("alert", 200, "", AlertData(TRUE, FALSE, TRUE))
       IN  /\ alertRequests' = [alertRequests EXCEPT ![i] = AlertDone(reply)]
           /\ response' = reply
    /\ UNCHANGED <<storeVars, alertsGenerated, memoryVars, today, clientVars>>

(***************************************************************************)
(* routes/first-reading.routes.ts: POST /api/first-reading                 *)
(* The BP estimate of utils/bp-estimation is left out of the bp_readings   *)
(* row and of the response.                                                *)
(***************************************************************************)
NoRequest == [state |-> "idle", body |-> Absent, status |-> 0]

hrvStatusOf(hrv) ==
    IF JGe(hrv, J(45)) /\ JLe(hrv, J(65)) THEN "normal"
    ELSE IF JLt(hrv, J(45)) THEN "low" ELSE "high"

PostFirstReading ==
    /\ request.state = "sent"
    /\ LET body == request.body[1]
       IN  IF body.userId = Absent \/ ~Truthy(Some(body.hrv))
           THEN /\ response' = Reply("first-reading", 400, "MISSING_FIELDS", << >>)
                /\ request' = [request EXCEPT !.state = "replied", !.status = 400]
                /\ UNCHANGED storeVars
           ELSE IF getUser(body.userId[1]) = Absent
           THEN /\ response' = Reply("first-reading", 404, "USER_NOT_FOUND", << >>)
                /\ request' = [request EXCEPT !.state = "replied", !.status = 404]
                /\ UNCHANGED storeVars
           ELSE LET baselineData ==
                      [hrv |-> body.hrv, sedentaryHours |-> J(5),
                       sleepQuality |-> J(7), screenStressIndex |-> Absent]
                    reading ==
                      [date |-> today, hrv |-> body.hrv,
                       heartRate |-> body.heartRate,
                       sedentaryHours |-> J(0), sleepQuality |-> J(7),
                       screenStressIndex |-> Absent, foodImpact |-> Absent]
                    bpReading ==
                      [date |-> today, hrv |-> body.hrv,
                       heartRate |-> body.heartRate]
                IN  /\ baselineRow' = setBaseline(baselineData)
                    /\ readingsTable' = addReading(readingsTable, reading)
                    /\ bpReadingsTable' = Append(bpReadingsTable, bpReading)
                    /\ response' =
                         Reply("first-reading", 200, "",
                               <<[hrvStatus |-> hrvStatusOf(body.hrv),
                                  reading |-> reading]>>)
                    /\ request' = [request EXCEPT !.state = "replied",
                                                  !.status = 200]
    /\ UNCHANGED <<alertVars, memoryVars, today, deviceVars, page>>

(***************************************************************************)
(* rppg-detection.ts: start(), stop(), the frame loop and getResult() as   *)
(* steps.  start() is not called on a detector that is running or whose    *)
(* start() is pending.  The steps of a start() that the page awaits carry  *)
(* on into the page's continuation or its catch block.                     *)
(***************************************************************************)
InitialPage ==
    [mounted |-> TRUE, hrv |-> Absent, heartRate |-> Absent,
     isCapturing |-> FALSE, error |-> "", progress |-> 0,
     signalStrength |-> 0, frameCount |-> 0, showVideo |-> FALSE,
     progressInterval |-> FALSE, capturePc |-> "idle"]

CameraError == "Could not access camera. Please ensure camera permissions are granted."
LowConfidenceError == "Detection confidence low. Ensure fingertip covers camera and torch is on."

\* onSignalUpdate and onFrameProcessed, called when processFrames() took d0
\* to d1
callbacks(p, d0, d1) ==
    IF FrameProcessed(d0)
    THEN [p EXCEPT !.signalStrength =
                       calculateCurrentSignalStrength(d1.signalHistory),
                   !.frameCount = d1.frameCount]
    ELSE p

\* the catch block of handleStartCapture, detector.stop() apart
catchStartError(p) ==
    [p EXCEPT !.error = CameraError, !.isCapturing = FALSE,
              !.showVideo = FALSE, !.capturePc = "idle"]

\* start() up to the await of getUserMedia
StartCall ==
    /\ startPc = "idle" /\ ~detector.isRunning
    /\ startPc' = "getUserMedia"
    /\ lastCall' = "start"
    /\ detection' = NoCall
    /\ UNCHANGED <<task, scene, videoReady, detector, page, request,
                   serverVars>>

\* getUserMedia resolves; start() goes on to the await of applyConstraints
CameraGranted(sc) ==
    /\ startPc = "getUserMedia"
    /\ scene' = sc
    /\ detector' = [detector EXCEPT !.stream = "live"]
    /\ startPc' = "applyConstraints"
    /\ detection' = NoCall
    /\ UNCHANGED <<task, videoReady, lastCall, page, request, serverVars>>

\* getUserMedia rejects; start() throws
CameraDenied ==
    /\ startPc = "getUserMedia"
    /\ startPc' = "idle"
    /\ IF page.capturePc = "awaitStart"
       THEN /\ page' = catchStartError(page)
            /\ detector' = stop(detector)
            /\ videoReady' = FALSE
            /\ lastCall' = "stop"
       ELSE UNCHANGED <<page, detector, videoReady, lastCall>>
    /\ detection' = NoCall
    /\ UNCHANGED <<task, scene, request, serverVars>>

\* applyConstraints settles either way; video.srcObject is set and start()
\* goes on to the await of video.play()
TorchSettled ==
    /\ startPc = "applyConstraints"
    /\ videoReady' = FALSE
    /\ startPc' = "play"
    /\ detection' = NoCall
    /\ UNCHANGED <<task, scene, detector, lastCall, page, request,
                   serverVars>>

\* the video element has buffered enough of the stream
VideoReady ==
    /\ startPc \in {"play", "idle"}
    /\ detector.stream = "live"
    /\ ~videoReady
    /\ videoReady' = TRUE
    /\ detection' = NoCall
    /\ UNCHANGED <<task, scene, detector, startPc, lastCall,
                   page, request, serverVars>>

\* a start() that empties the buffer and leaves frameCount as it was
PlayResolved_KeepsFrameCount ==
    /\ startPc = "play"
    /\ LET d0 == [detector EXCEPT !.isRunning = TRUE,
                                  !.signalHistory = << >>]
           d1 == processFrames(d0)
           p1 == callbacks(page, d0, d1)
       IN  /\ detector' = d1
           /\ page' = IF page.capturePc = "awaitStart"
                      THEN [p1 EXCEPT !.progressInterval = TRUE,
                                      !.capturePc = "idle"]
                      ELSE p1
    /\ startPc' = "idle"
    /\ detection' = NoCall
    /\ UNCHANGED <<task, scene, videoReady, lastCall, request, serverVars>>

\* video.play() resolves; start() resets the buffer, runs processFrames()
\* and returns
PlayResolved ==
    /\ startPc = "play"
    /\ LET d0 == [detector EXCEPT !.isRunning = TRUE, !.frameCount = 0,
                                  !.signalHistory = << >>]
           d1 == processFrames(d0)
           p1 == callbacks(page, d0, d1)
       IN  /\ detector' = d1
           /\ page' = IF page.capturePc = "awaitStart"
                      THEN [p1 EXCEPT !.progressInterval = TRUE,
                                      !.capturePc = "idle"]
                      ELSE p1
    /\ startPc' = "idle"
    /\ detection' = NoCall
    /\ UNCHANGED <<task, scene, videoReady, lastCall, request, serverVars>>

\* video.play() rejects; start() throws
PlayRejected ==
    /\ startPc = "play"
    /\ startPc' = "idle"
    /\ IF page.capturePc = "awaitStart"
       THEN /\ page' = catchStartError(page)
            /\ detector' = stop(detector)
            /\ videoReady' = FALSE
            /\ lastCall' = "stop"
       ELSE UNCHANGED <<page, detector, videoReady, lastCall>>
    /\ detection' = NoCall
    /\ UNCHANGED <<task, scene, request, serverVars>>

\* the pending requestAnimationFrame callback runs processFrames()
AnimationFrame ==
    /\ detector.animationFrame
    /\ LET d0 == [detector EXCEPT !.animationFrame = FALSE]
           d1 == processFrames(d0)
       IN  /\ detector' = d1
           /\ page' = callbacks(page, d0, d1)
    /\ detection' = NoCall
    /\ UNCHANGED <<task, scene, videoReady, startPc, lastCall, request,
                   serverVars>>

\* stop(); clearing video.srcObject empties the video element
Stop ==
    /\ detector' = stop(detector)
    /\ videoReady' = FALSE
    /\ lastCall' = "stop"
    /\ detection' = NoCall
    /\ UNCHANGED <<task, scene, startPc, page, request, serverVars>>

\* a getResult() that takes the samples it used out of the buffer
GetResult_ConsumesBuffer ==
    /\ detection' =
         [called |-> TRUE,
          samples |-> Len(detector.signalHistory),
          afterStop |-> lastCall = "stop" /\ ~detector.isRunning
                        /\ startPc = "idle",
          result |-> getResult(detector.signalHistory)]
    /\ detector' = [detector EXCEPT !.signalHistory =
                        IF Len(@) < MIN_SAMPLES THEN @ ELSE << >>]
    /\ UNCHANGED <<task, scene, videoReady, startPc, lastCall, page,
                   request, serverVars>>

\* getResult() called by a client of the detector
GetResult ==
    /\ detection' =
         [called |-> TRUE,
          samples |-> Len(detector.signalHistory),
          afterStop |-> lastCall = "stop" /\ ~detector.isRunning
                        /\ startPc = "idle",
          result |-> getResult(detector.signalHistory)]
    /\ UNCHANGED <<task, scene, videoReady, detector, startPc, lastCall, page,
                   request, serverVars>>

(***************************************************************************)
(* processFrames() and getResult() statement by statement, as callbacks of *)
(* the window's event loop: requestAnimationFrame and setInterval queue    *)
(* them on the one main thread, which begins a callback only when the      *)
(* callback before it has returned.                                        *)
(***************************************************************************)
\* a main thread that begins a callback while another is in progress
MainThreadFree_Preemptive == TRUE

\* the main thread is between callbacks
MainThreadFree == task.frame = "idle" /\ task.poll = "idle"

\* the reads of a getResult() call that has returned are forgotten
ReadsKept == IF task.poll = "idle" THEN << >> ELSE task.reads

\* the requestAnimationFrame callback begins: processFrames() down to
\* signalHistory.push(avgRed) and frameCount++
FrameBegin ==
    /\ detector.animationFrame /\ task.frame = "idle"
    /\ MainThreadFree
    /\ LET d0 == [detector EXCEPT !.animationFrame = FALSE]
       IN  IF FrameProcessed(d0)
           THEN /\ detector' =
                     [d0 EXCEPT !.signalHistory =
                                    Append(@, Scene(scene, d0.frameCount)),
                                !.frameCount = @ + 1]
                /\ task' = [task EXCEPT !.frame = "pushed",
                                        !.reads = ReadsKept]
           ELSE /\ detector' = processFrames(d0)
                /\ task' = [task EXCEPT !.reads = ReadsKept]
    /\ detection' = NoCall
    /\ UNCHANGED <<scene, videoReady, startPc, lastCall, page, request,
                   serverVars>>

\* processFrames(): if (signalHistory.length > MAX_SAMPLES) shift()
FrameTrim ==
    /\ task.frame = "pushed"
    /\ detector' = [detector EXCEPT !.signalHistory =
                        IF Len(@) > MAX_SAMPLES THEN Tail(@) ELSE @]
    /\ task' = [task EXCEPT !.frame = "trimmed", !.reads = ReadsKept]
    /\ detection' = NoCall
    /\ UNCHANGED <<scene, videoReady, startPc, lastCall, page, request,
                   serverVars>>

\* processFrames(): calculateCurrentSignalStrength(), the two callbacks
\* and the next requestAnimationFrame
FrameNotify ==
    /\ task.frame = "trimmed"
    /\ page' = [page EXCEPT !.signalStrength =
                    calculateCurrentSignalStrength(detector.signalHistory),
                            !.frameCount = detector.frameCount]
    /\ detector' = [detector EXCEPT !.animationFrame = TRUE]
    /\ task' = [task EXCEPT !.frame = "idle", !.reads = ReadsKept,
                            !.strengthRead = detector.signalHistory]
    /\ detection' = NoCall
    /\ UNCHANGED <<scene, videoReady, startPc, lastCall, request, serverVars>>

\* the setInterval callback calls getResult(): the length test, which
\* returns null below MIN_SAMPLES
PollBegin ==
    /\ task.poll = "idle"
    /\ MainThreadFree
    /\ IF Len(detector.signalHistory) < MIN_SAMPLES
       THEN /\ task' = [task EXCEPT !.reads = <<detector.signalHistory>>]
            /\ detection' =
                 [called |-> TRUE,
                  samples |-> Len(detector.signalHistory),
                  afterStop |-> lastCall = "stop" /\ ~detector.isRunning
                                /\ startPc = "idle",
                  result |-> NoDetection]
       ELSE /\ task' = [task EXCEPT !.poll = "filter",
                                    !.reads = <<detector.signalHistory>>]
            /\ detection' = NoCall
    /\ UNCHANGED <<scene, videoReady, detector, startPc, lastCall, page,
                   request, serverVars>>

\* getResult(): bandpassFilter(signalHistory, ..), findDominantFrequency,
\* calculateHRV and calculateConfidence of the filtered signal
PollFilter ==
    /\ task.poll = "filter"
    /\ LET filtered == bandpassFilter(detector.signalHistory, 7, 40,
                                      SAMPLE_RATE)
       IN  task' =
             [task EXCEPT
                !.poll = "strength",
                !.reads = Append(@, detector.signalHistory),
                !.partial =
                    [found |-> TRUE,
                     hrv |-> FxRound(calculateHRV(filtered)),
                     heartRate |->
                         FxRound(findDominantFrequency(filtered, SAMPLE_RATE)),
                     confidence |-> Min2(calculateConfidence(filtered), FX),
                     signalStrength |-> 0]]
    /\ detection' = NoCall
    /\ UNCHANGED <<scene, videoReady, detector, startPc, lastCall, page,
                   request, serverVars>>

\* getResult(): calculateCurrentSignalStrength() and the result returned
PollStrength ==
    /\ task.poll = "strength"
    /\ detection' =
         [called |-> TRUE,
          samples |-> Len(task.reads[1]),
          afterStop |-> lastCall = "stop" /\ ~detector.isRunning
                        /\ startPc = "idle",
          result |->
              [task.partial EXCEPT !.signalStrength =
                   calculateCurrentSignalStrength(detector.signalHistory)]]
    /\ task' = [task EXCEPT !.poll = "idle",
                            !.reads = Append(@, detector.signalHistory),
                            !.partial = NoDetection]
    /\ UNCHANGED <<scene, videoReady, detector, startPc, lastCall, page,
                   request, serverVars>>

(***************************************************************************)
(* pages/first-reading/index.tsx: FirstReadingPage.  hrv and heartRate     *)
(* hold Absent for '' and Some(n) for the decimal string of the integer n, *)
(* which is what toString() gives for a rounded value and what parseInt    *)
(* reads back.                                                             *)
(***************************************************************************)
\* result && result.confidence > 0.2
Confident(result) == result.found /\ result.confidence * 10 > 2 * FX

\* handleStartCapture up to the await of detector.start(); the button
\* shows while no capture runs and hrv is ''
HandleStartCapture ==
    /\ page.mounted /\ ~page.isCapturing /\ page.hrv = Absent
    /\ startPc = "idle"
    /\ page' = [page EXCEPT !.error = "", !.isCapturing = TRUE,
                            !.progress = 0, !.hrv = Absent,
                            !.heartRate = Absent, !.signalStrength = 0,
                            !.frameCount = 0, !.showVideo = TRUE,
                            !.capturePc = "awaitStart"]
    /\ detector' = NewDetector
    /\ startPc' = "getUserMedia"
    /\ lastCall' = "start"
    /\ detection' = NoCall
    /\ UNCHANGED <<task, scene, videoReady, request, serverVars>>

\* the buffers of MIN_SAMPLES samples and more that a capture session
\* acquires: the first samples of a scene
SessionBuffers ==
    {[i \in 1..n |-> Scene(sc, i - 1)] :
        sc \in Scenes, n \in MIN_SAMPLES..(MaxSessionFrames + 1)}

\* getResult() over the buffers of a capture session, computed once
SessionResults == [signalHistory \in SessionBuffers |-> getResult(signalHistory)]

\* detector.getResult() as the setInterval callback calls it
polledResult(signalHistory) ==
    IF signalHistory \in SessionBuffers THEN SessionResults[signalHistory]
    ELSE getResult(signalHistory)

\* a callback that goes on polling once the duration has elapsed
Tick_KeepsPolling(elapsed) ==
    /\ page.progressInterval
    /\ LET result == polledResult(detector.signalHistory)
           p1 == [page EXCEPT !.progress = IF elapsed THEN 100 ELSE 50]
       IN  page' = IF Confident(result)
                   THEN [p1 EXCEPT !.hrv = Some(result.hrv),
                                   !.heartRate = Some(result.heartRate)]
                   ELSE p1
    /\ detection' = NoCall
    /\ UNCHANGED <<detector, videoReady, lastCall, task, scene, startPc,
                   request, serverVars>>

\* the setInterval callback; elapsed says whether elapsed >= duration
Tick(elapsed) ==
    /\ page.progressInterval
    /\ LET result == polledResult(detector.signalHistory)
           p1 == [page EXCEPT !.progress = IF elapsed THEN 100 ELSE 50]
           p2 == IF Confident(result)
                 THEN [p1 EXCEPT !.hrv = Some(result.hrv),
                                 !.heartRate = Some(result.heartRate)]
                 ELSE p1
       IN  IF ~elapsed
           THEN /\ page' = p2
                /\ UNCHANGED <<detector, videoReady, lastCall>>
           ELSE LET finalResult == polledResult(detector.signalHistory)
                    p3 == [p2 EXCEPT !.progressInterval = FALSE]
                    p4 == IF Confident(finalResult)
                          THEN [p3 EXCEPT !.hrv = Some(finalResult.hrv),
                                          !.heartRate =
                                              Some(finalResult.heartRate)]
                          ELSE [p3 EXCEPT !.hrv = Some(50),
                                          !.heartRate = Some(72),
                                          !.error = LowConfidenceError]
                IN  /\ page' = [p4 EXCEPT !.isCapturing = FALSE,
                                          !.showVideo = FALSE]
                    /\ detector' = stop(detector)
                    /\ videoReady' = FALSE
                    /\ lastCall' = "stop"
    /\ detection' = NoCall
    /\ UNCHANGED <<task, scene, startPc, request, serverVars>>

\* handleSubmit; Continue shows once the capture is over and hrv is set,
\* and is disabled while the mutation is pending
HandleSubmit ==
    /\ page.mounted /\ ~page.isCapturing
    /\ request.state \in {"idle", "error"}
    /\ page.hrv # Absent
    /\ request' =
         [state |-> "sent",
          body |-> Some([userId |-> Some(User), hrv |-> J(page.hrv[1]),
                         heartRate |-> IF page.heartRate # Absent
                                       THEN Some(J(page.heartRate[1]))
                                       ELSE Absent]),
          status |-> 0]
    /\ UNCHANGED <<deviceVars, page, serverVars>>

\* the response reaches readingMutation; onSuccess navigates to /home and
\* the cleanup effect of the page runs
MutationSettled ==
    /\ request.state = "replied"
    /\ IF request.status = 200
       THEN /\ request' = [request EXCEPT !.state = "success"]
            /\ page' = [page EXCEPT !.mounted = FALSE,
                                    !.progressInterval = FALSE]
            /\ detector' = stop(detector)
            /\ videoReady' = FALSE
            /\ lastCall' = "stop"
       ELSE /\ request' = [request EXCEPT !.state = "error"]
            /\ UNCHANGED <<page, detector, videoReady, lastCall>>
    /\ detection' = NoCall
    /\ UNCHANGED <<task, scene, startPc, serverVars>>

(***************************************************************************)
(* Specification of the health routes over day-by-day HRV histories.       *)
(***************************************************************************)
Init ==
    /\ readingsTable = << >>
    /\ baselineRow = Absent
    /\ bpReadingsTable = << >>
    /\ today = 1
    /\ response = NoResponse
    /\ dailyAlertsTable = Absent
    /\ alertRequests = << >>
    /\ alertsGenerated = 0
    /\ memoryReadings = Absent
    /\ memoryResult = NoMemoryResult
    /\ scene = "flat"
    /\ videoReady = FALSE
    /\ detector = NewDetector
    /\ startPc = "idle"
    /\ lastCall = "none"
    /\ detection = NoCall
    /\ task = NoTask
    /\ page = InitialPage
    /\ request = NoRequest

NextHistory ==
    \/ /\ Len(readingsTable) < MaxReadings
       /\ \E body \in HistoryBodies(readingsTable) : PostReading(body)
    \/ \E body \in BaselineBodies : PostBaseline(body)
    \/ \E query \in Queries : GetCSS(query)

SpecHistory == Init /\ [][NextHistory]_vars

(***************************************************************************)
(* Specification of the health routes over short histories whose readings  *)
(* carry every lifestyle.                                                  *)
(***************************************************************************)
NextScore ==
    \/ /\ Len(readingsTable) < MaxScoreReadings
       /\ \E body \in ScoreBodies(readingsTable) : PostReading(body)
    \/ \E body \in BaselineBodies : PostBaseline(body)
    \/ \E query \in Queries : GetCSS(query)

SpecScore == Init /\ [][NextScore]_vars

(***************************************************************************)
(* Specification of the routes that derive the health context from the     *)
(* store.                                                                  *)
(***************************************************************************)
NextContext ==
    \/ /\ Len(readingsTable) < MaxContextReadings
       /\ \E body \in ContextBodies(readingsTable) : PostReading(body)
    \/ \E body \in BaselineBodies : PostBaseline(body)
    \/ \E query \in Queries : GetCSS(query)
    \/ \E body \in RespondBodies, generated \in BOOLEAN :
           PostRespond(body, generated)

SpecContext == Init /\ [][NextContext]_vars

(***************************************************************************)
(* Specification of the detector's acquisition: start(), the frame loop    *)
(* and stop(), past the capacity of the buffer.                            *)
(***************************************************************************)
Acquisition(maxFrames) ==
    \/ StartCall
    \/ \E sc \in Scenes : CameraGranted(sc)
    \/ CameraDenied
    \/ TorchSettled
    \/ VideoReady
    \/ PlayResolved
    \/ PlayRejected
    \/ detector.frameCount < maxFrames /\ AnimationFrame
    \/ Stop

NextIngest == Acquisition(MaxFrames)

SpecIngest == Init /\ [][NextIngest]_vars

(***************************************************************************)
(* Specification of the detector with a client that calls getResult() at   *)
(* any point of the acquisition.                                           *)
(***************************************************************************)
NextDetector ==
    \/ Acquisition(MaxPolledFrames)
    \/ GetResult

SpecDetector == Init /\ [][NextDetector]_vars

(***************************************************************************)
(* Specification of the readings of yesterday and today and of the update  *)
(* of today's reading with the sleep quality the user reports.             *)
(***************************************************************************)
NextDaily ==
    \/ /\ Len(readingsTable) < MaxDailyReadings
       /\ \E body \in DailyBodies(readingsTable) : PostReading(body)
    \/ /\ Len(readingsTable) < MaxDailyReadings
       /\ \E body \in SleepBodies, extracted \in SleepExtractions :
              PostSleepExtract(body, extracted)
    \/ \E body \in AlertBaselines : PostBaseline(body)
    \/ \E query \in Queries : GetCSS(query)

SpecDaily == Init /\ [][NextDaily]_vars

(***************************************************************************)
(* Specification of the in-memory DataStore: readings added past the 30    *)
(* it keeps, and read back for a known and an unknown user.                *)
(***************************************************************************)
DayCounts == {Absent} \cup { Some(n) : n \in 0..MaxMemoryReadings }

NextMemory ==
    \/ /\ LastDate(DataStore_get(memoryReadings, User)) < MaxMemoryReadings
       /\ DataStoreAddReading
    \/ \E userId \in {User, "u2"}, days \in DayCounts :
           DataStoreGetReadings(userId, days)

SpecMemory == Init /\ [][NextMemory]_vars

(***************************************************************************)
(* Specification of POST /api/health/alert requests in flight together,    *)
(* over a store filled before the first of them arrives.                   *)
(***************************************************************************)
NextAlert ==
    \/ /\ alertRequests = << >>
       /\ Len(readingsTable) < MaxAlertReadings
       /\ \E body \in AlertBodies(readingsTable) : PostReading(body)
    \/ /\ alertRequests = << >>
       /\ \E body \in AlertBaselines : PostBaseline(body)
    \/ /\ Len(alertRequests) < MaxAlertRequests
       /\ \E body \in Queries : AlertPost(body)
    \/ \E i \in 1..Len(alertRequests) : AlertReadingsRead(i)
    \/ \E i \in 1..Len(alertRequests) : AlertBaselineRead(i)
    \/ \E i \in 1..Len(alertRequests) : AlertUserRead(i)
    \/ \E i \in 1..Len(alertRequests) : AlertFlagRead(i)
    \/ \E i \in 1..Len(alertRequests) : AlertImported(i)
    \/ \E i \in 1..Len(alertRequests), generated \in BOOLEAN :
           AlertGenerated(i, generated)
    \/ \E i \in 1..Len(alertRequests) : AlertFlagSet(i)

SpecAlert == Init /\ [][NextAlert]_vars

(***************************************************************************)
(* Specification of the frame loop and a polling getResult(), both taken   *)
(* statement by statement, on the main thread of the page.                 *)
(***************************************************************************)
NextEventLoop ==
    \/ MainThreadFree /\ StartCall
    \/ MainThreadFree /\ \E sc \in Scenes : CameraGranted(sc)
    \/ MainThreadFree /\ TorchSettled
    \/ MainThreadFree /\ VideoReady
    \/ MainThreadFree /\ PlayResolved
    \/ detector.frameCount < MaxFrames /\ FrameBegin
    \/ FrameTrim
    \/ FrameNotify
    \/ PollBegin
    \/ PollFilter
    \/ PollStrength

SpecEventLoop == Init /\ [][NextEventLoop]_vars

(***************************************************************************)
(* Specification of a capture session on the first-reading page, its       *)
(* request to the server, and the score read back.                         *)
(***************************************************************************)
NextSession ==
    \/ HandleStartCapture
    \/ \E sc \in Scenes : CameraGranted(sc)
    \/ CameraDenied
    \/ TorchSettled
    \/ VideoReady
    \/ PlayResolved
    \/ PlayRejected
    \/ detector.frameCount < MaxSessionFrames /\ AnimationFrame
    \/ \E elapsed \in BOOLEAN : Tick(elapsed)
    \/ HandleSubmit
    \/ PostFirstReading
    \/ MutationSettled
    \/ \E query \in Queries : GetCSS(query)

SpecSession == Init /\ [][NextSession]_vars

\* setInterval(..., 100) keeps calling back while the timer is set and
\* Date.now() - startTime grows with every callback, so a callback with
\* elapsed >= duration comes unless the timer is cleared first
SpecSessionFair == SpecSession /\ WF_vars(Tick(TRUE))

(***************************************************************************)
(* Properties of calculateCSS, read off the answer of GET /api/health/css. *)
(* Every request replaces `response` and GET /css leaves the store alone,  *)
(* so while the css answer stands the store still holds its inputs.        *)
(***************************************************************************)
\* GET /css was asked for a user and found a baseline
CssAsked ==
    response.route = "css" /\ response.code \notin {"MISSING_USER_ID", "BASELINE_NOT_FOUND"}

\* GET /css answered with a CSSResult
CssReplied == response.route = "css" /\ response.status = 200

Css == response.data[1].css
CssReadings == getReadings(readingsTable)
CssBaseline == baselineRow[1]

\* C1: shouldAlert is true if and only if the returned score is above 65 and
\* the returned worseningDays is at least 5, for every non-empty history.
C1_AlertIffScoreAndDays ==
    (CssReplied /\ Len(CssReadings) > 0) =>
        (Css.shouldAlert = TRUE <=>
            (isFinite(Css.score) /\ Css.score.n > 65 * Css.score.d
             /\ Css.worseningDays >= 5))

C1_Witness ==
    /\ CssReplied /\ Len(CssReadings) > 0
    /\ Css.shouldAlert = TRUE
    /\ Css.score.n > 65 * Css.score.d /\ Css.worseningDays >= 5

\* the number of strictly decreasing HRV transitions counted backward from
\* the reading at position i, up to the start of the history
RECURSIVE DecreasingTransitions(_, _)
DecreasingTransitions(readings, i) ==
    IF i > 1 /\ readings[i].hrv.n * readings[i - 1].hrv.d
                  < readings[i - 1].hrv.n * readings[i].hrv.d
    THEN 1 + DecreasingTransitions(readings, i - 1)
    ELSE 0

\* C2: for a history of any length >= 1, worseningDays is the number of
\* consecutive strictly decreasing HRV transitions counted backward from the
\* most recent reading.
C2_WorseningDaysCountsTransitions ==
    (CssReplied /\ Len(CssReadings) >= 1) =>
        Css.worseningDays = DecreasingTransitions(CssReadings, Len(CssReadings))

\* C3: with a non-empty history and baseline.hrv = 0, calculateCSS fails with
\* InvalidBaseline and returns no result with an infinite or NaN hrvDelta or
\* score.
C3_ZeroBaselineFails ==
    (CssAsked /\ Len(CssReadings) > 0 /\ CssBaseline.hrv = J(0)) =>
        /\ response.status = 500
        /\ response.code = "CSS_CALCULATION_ERROR"

\* C8: an alert is raised only when the composite score of each of the five
\* most recent days was above the threshold.
C8_AlertAfterFiveDaysAboveThreshold ==
    (CssReplied /\ Css.shouldAlert = TRUE) =>
        /\ Len(CssReadings) >= 5
        /\ \A day \in (Len(CssReadings) - 4)..Len(CssReadings) :
              LET then == calculateCSS(SubSeq(CssReadings, 1, day), CssBaseline)
              IN  isFinite(then.score) /\ then.score.n > 65 * then.score.d

\* C10: with an empty history calculateCSS returns score 0, trend "stable",
\* worseningDays 0, shouldAlert false and hrvDelta 0 for every baseline, and
\* does not raise.
C10_EmptyHistoryDefault ==
    (CssAsked /\ Len(CssReadings) = 0) =>
        /\ response.status = 200
        /\ Css.score = [k |-> "num", n |-> 0, d |-> 1]
        /\ Css.trend = "stable"
        /\ Css.worseningDays = 0
        /\ Css.shouldAlert = FALSE
        /\ Css.hrvDelta = [k |-> "num", n |-> 0, d |-> 1]

C10_Witness ==
    /\ CssReplied /\ Len(CssReadings) = 0
    /\ CssBaseline.hrv = J(0)
    /\ Css.score = J(0) /\ Css.hrvDelta = J(0)

NonNegative(x) == isFinite(x) /\ x.n >= 0
NonNegativeOpt(o) == o = Absent \/ NonNegative(o[1])

\* the latest reading and the baseline are finite and non-negative
FiniteInputs(readings, baseline) ==
    LET latest == readings[Len(readings)]
    IN  /\ NonNegative(latest.hrv)
        /\ isFinite(baseline.hrv) /\ baseline.hrv.n > 0
        /\ NonNegative(latest.sedentaryHours)
        /\ NonNegative(latest.sleepQuality)
        /\ NonNegativeOpt(latest.foodImpact)
        /\ NonNegativeOpt(latest.screenStressIndex)

\* C4: for finite non-negative inputs with baseline.hrv > 0 the score is an
\* integer between 0 and 100.
C4_ScoreWithinRange ==
    (CssReplied /\ Len(CssReadings) > 0 /\ FiniteInputs(CssReadings, CssBaseline)) =>
        /\ IsInteger(Css.score)
        /\ 0 <= Css.score.n /\ Css.score.n <= 100

\* the last Min2(n, MAX_SAMPLES) of the n samples the scene produced since
\* start(), oldest first
MostRecentSamples(n) ==
    LET kept == Min2(n, MAX_SAMPLES)
    IN  [j \in 1..kept |-> Scene(scene, n - kept + j - 1)]

\* C5: signalHistory never holds more than MAX_SAMPLES samples, and while
\* the detector runs it holds the most recent min(n, MAX_SAMPLES) of the n
\* samples ingested since start(), in the order they were ingested.
C5_BufferHoldsMostRecentSamples ==
    /\ Len(detector.signalHistory) <= MAX_SAMPLES
    /\ detector.isRunning =>
         detector.signalHistory = MostRecentSamples(detector.frameCount)

\* a frame has arrived at a full buffer of distinguishable samples
C5_Witness ==
    /\ detector.isRunning
    /\ scene = "drift"
    /\ detector.frameCount > MAX_SAMPLES
    /\ Len(detector.signalHistory) = MAX_SAMPLES

\* C6: getResult() returns null exactly when the buffer holds fewer than
\* MIN_SAMPLES samples at the call, and a result whenever it holds at least
\* MIN_SAMPLES.
C6_ResultIffMinSamples ==
    detection.called =>
        (detection.result.found <=> detection.samples >= MIN_SAMPLES)

\* getResult() was called on a buffer of exactly MIN_SAMPLES samples
C6_Witness ==
    /\ detection.called
    /\ detection.samples = MIN_SAMPLES
    /\ detection.result.found

\* C7: a getResult() call made after stop(), with no start() called since,
\* returns no result computed from the samples of the stopped acquisition.
C7_StopDiscardsBuffer ==
    (detection.called /\ detection.afterStop) => ~detection.result.found

\* the capture of the page ended on a final detection that was null or had
\* confidence <= 0.2
FinalDetectionLow == page.error = LowConfidenceError

\* the request of the page was stored by POST /api/first-reading
SessionStored ==
    /\ request.state \in {"replied", "success"}
    /\ request.status = 200

\* C9: no value submitted from a capture session whose final detection was
\* null or had confidence <= 0.2 is stored as a reading or as the baseline
\* and then consumed by calculateCSS.
C9_LowConfidenceNeverConsumed ==
    ~ ( /\ FinalDetectionLow
        /\ SessionStored
        /\ CssReplied
        /\ \/ CssBaseline.hrv = request.body[1].hrv
           \/ \E i \in 1..Len(CssReadings) :
                  CssReadings[i].hrv = request.body[1].hrv )

\* the sum of the whole-number HRV values of readings lo..hi
RECURSIVE HrvTotal(_, _, _)
HrvTotal(readings, lo, hi) ==
    IF lo > hi THEN 0
    ELSE readings[hi].hrv.n + HrvTotal(readings, lo, hi - 1)

\* the trend of a history of more than 3 readings of positive whole-number
\* HRV: the change of the mean from the prior window to the recent one,
\* compared with 5 % after multiplying out the divisions
ExpectedTrend(readings) ==
    LET n == Len(readings)
        priorLo == Max2(1, n - 5)
        priorLen == (n - 3) - priorLo + 1
        recentTotal == HrvTotal(readings, n - 2, n)
        priorTotal == HrvTotal(readings, priorLo, n - 3)
        \* change = 100 * risen / base, with base > 0
        risen == recentTotal * priorLen - priorTotal * 3
        base == priorTotal * 3
    IN  IF 100 * risen < (-5) * base THEN "worsening"
        ELSE IF 100 * risen > 5 * base THEN "improving"
        ELSE "stable"

Clamp(x, lo, hi) == IF JLt(x, lo) THEN lo ELSE IF JGt(x, hi) THEN hi ELSE x

\* the percentage by which the HRV of a reading lies above the baseline HRV
HrvDeltaPercent(latest, baseline) ==
    JDiv(JMul(J(100), JSub(latest.hrv, baseline.hrv)), baseline.hrv)

\* the weighted sum of the five components of one reading, in hundredths,
\* rounded to the nearest whole number
ExpectedScore(latest, baseline) ==
    LET hrvScore == Clamp(JSub(J(50), HrvDeltaPercent(latest, baseline)),
                          J(0), J(100))
        hundredths ==
            JAdd(JMul(J(35), hrvScore),
            JAdd(JMul(J(25), sedentaryScoreOf(latest)),
            JAdd(JMul(J(20), sleepScoreOf(latest)),
            JAdd(JMul(J(12), foodScoreOf(latest)),
                 JMul(J(8), screenScoreOf(latest))))))
    IN  MathRound(JDiv(hundredths, J(100)))

CssLatest == CssReadings[Len(CssReadings)]

\* C12: for a non-empty history the score is the rounded weighted sum
\* 0.35 hrvScore + 0.25 sedentaryScore + 0.20 sleepScore + 0.12 foodScore
\* + 0.08 screenScore of the latest reading alone, with hrvScore the value
\* 50 - hrvDelta held within [0, 100]; when the latest HRV equals a positive
\* baseline HRV, hrvDelta is 0 and hrvScore is 50.
C12_ScoreFromLatestReading ==
    (CssReplied /\ Len(CssReadings) > 0) =>
        /\ Css.score = ExpectedScore(CssLatest, CssBaseline)
        /\ (JGt(CssBaseline.hrv, J(0)) /\ CssLatest.hrv = CssBaseline.hrv) =>
              /\ Css.hrvDelta = J(0)
              /\ hrvScoreOf(hrvDeltaOf(CssLatest, CssBaseline)) = J(50)

\* a score for a history whose latest reading sits on the baseline HRV and
\* differs in lifestyle from the reading before it
C12_Witness ==
    /\ CssReplied
    /\ Len(CssReadings) >= 2
    /\ JGt(CssBaseline.hrv, J(0))
    /\ CssLatest.hrv = CssBaseline.hrv
    /\ CssReadings[1].sedentaryHours # CssLatest.sedentaryHours
    /\ Css.score = ExpectedScore(CssLatest, CssBaseline)

WithinPercent(x) == JGe(x, J(0)) /\ JLe(x, J(100))

\* C13: sedentaryScore and sleepScore of the latest reading both lie within
\* [0, 100], whatever its sedentaryHours and sleepQuality.
C13_ComponentsClamped ==
    (CssReplied /\ Len(CssReadings) > 0) =>
        /\ WithinPercent(sedentaryScoreOf(CssLatest))
        /\ WithinPercent(sleepScoreOf(CssLatest))

\* a route answered with the health context it derived from the store
ContextAnswered ==
    \/ CssReplied
    \/ /\ response.route = "respond" /\ response.status = 200
       /\ response.data[1].userId # Absent

AnsweredContext ==
    IF response.route = "css" THEN response.data[1].healthContext
    ELSE response.data[1].context[1]

\* C14: with no baseline or with an empty history the health context is the
\* fixed neutral one: css 0, trend "stable", hrv 0, hrvBaseline 0, hrvDelta 0,
\* sedentaryHours 0, sleepQuality 5, worseningDays 0.
C14_NeutralContext ==
    (ContextAnswered /\ (baselineRow = Absent \/ readingsTable = << >>)) =>
        AnsweredContext =
            [css |-> J(0), trend |-> "stable", hrv |-> J(0),
             hrvBaseline |-> J(0), hrvDelta |-> J(0), sedentaryHours |-> J(0),
             sleepQuality |-> J(5), worseningDays |-> 0]

\* the context was derived from a non-empty history with no baseline stored
C14_Witness ==
    /\ ContextAnswered
    /\ response.route = "respond"
    /\ baselineRow = Absent
    /\ readingsTable # << >>
    /\ AnsweredContext.sleepQuality = J(5)

\* C15: with a baseline and a non-empty history the health context agrees
\* with the CSSResult of the same inputs on css = score, trend, hrvDelta and
\* worseningDays, carries hrv, sedentaryHours and sleepQuality of the latest
\* reading, and a screenStressIndex of 0 when the reading has none.
C15_ContextAgreesWithCSS ==
    (CssReplied /\ Len(CssReadings) > 0) =>
        LET context == response.data[1].healthContext
        IN  /\ context.css = Css.score
            /\ context.trend = Css.trend
            /\ context.hrvDelta = Css.hrvDelta
            /\ context.worseningDays = Css.worseningDays
            /\ context.hrv = CssLatest.hrv
            /\ context.sedentaryHours = CssLatest.sedentaryHours
            /\ context.sleepQuality = CssLatest.sleepQuality
            /\ context.screenStressIndex =
                   IF CssLatest.screenStressIndex = Absent THEN J(0)
                   ELSE CssLatest.screenStressIndex[1]

\* a context derived from a history that is not stable, whose latest reading
\* has no screenStressIndex
C15_Witness ==
    /\ CssReplied
    /\ Len(CssReadings) > 0
    /\ Css.trend # "stable"
    /\ Css.worseningDays > 0
    /\ CssLatest.screenStressIndex = Absent
    /\ response.data[1].healthContext.screenStressIndex = J(0)
    /\ response.data[1].healthContext.trend = Css.trend

\* the step is a request answered by calculateCSS or getHealthContext
ScoringStep == response'.route \in {"css", "respond"}

\* the step repeats the request that the standing response answered
RepeatedScoring ==
    /\ response.route = response'.route
    /\ response.status = 200 /\ response'.status = 200
    /\ response.route = "respond" =>
           response.data[1].userId = response'.data[1].userId

MostRecent(signal, count) ==
    SubSeq(signal, Max2(1, Len(signal) - count + 1), Len(signal))

\* C17: the signal strength of a buffer of fewer than 10 samples is exactly
\* 0, and for every buffer it lies within [0, 1] and is the same as that of
\* the 30 most recent samples alone.
C17_SignalStrengthBounded ==
    LET strength == calculateCurrentSignalStrength(detector.signalHistory)
    IN  /\ Len(detector.signalHistory) < 10 => strength = 0
        /\ strength >= 0 /\ strength <= FX
        /\ strength =
             calculateCurrentSignalStrength(MostRecent(detector.signalHistory, 30))

\* a buffer of more than 30 samples of a pulse, whose strength lies strictly
\* between 0 and 1 and has reached the page
C17_Witness ==
    /\ Len(detector.signalHistory) > 30
    /\ scene = "pulse"
    /\ calculateCurrentSignalStrength(detector.signalHistory) > 0
    /\ calculateCurrentSignalStrength(detector.signalHistory) < FX
    /\ page.signalStrength =
           calculateCurrentSignalStrength(detector.signalHistory)

\* the buffer after the band-pass filter of getResult()
Filtered == bandpassFilter(detector.signalHistory, 7, 40, SAMPLE_RATE)

\* the bins of a spectrum of n samples whose frequency i * SAMPLE_RATE / n
\* lies within 0.7 .. 4.0 Hz
PassbandBins(n) ==
    { i \in 0..(((n + 1) \div 2) - 1) :
        10 * i * SAMPLE_RATE >= 7 * n /\ 10 * i * SAMPLE_RATE <= 40 * n }

\* the lowest of the pass-band bins of maximal positive magnitude, or -1
PeakBin(fft, n) ==
    LET bins == { i \in PassbandBins(n) : fft[i + 1] > 0 }
    IN  IF bins = {} THEN -1
        ELSE CHOOSE i \in bins :
                 \A j \in bins :
                     fft[j + 1] < fft[i + 1] \/ (fft[j + 1] = fft[i + 1] /\ i <= j)

\* beats per minute of the peak bin, 1.2 Hz when there is none
ExpectedBpm(fft, n) ==
    LET peak == PeakBin(fft, n)
    IN  IF peak = -1 THEN 72 * FX ELSE (peak * SAMPLE_RATE * 60 * FX) \div n

\* C18: the heart rate of a result is that of the pass-band bin (0.7 to
\* 4.0 Hz) of maximal magnitude, the lowest such bin on ties, or of 1.2 Hz
\* when no pass-band bin has positive magnitude; it lies within [42, 240].
C18_DominantFrequency ==
    (detection.called /\ detection.result.found) =>
        \A fft \in {simpleFFT(Filtered)} :
        \A bpm \in {ExpectedBpm(fft, Len(detector.signalHistory))} :
            /\ detection.result.heartRate = FxRound(bpm)
            /\ bpm >= 42 * FX /\ bpm <= 240 * FX
            /\ detection.result.heartRate >= 42
            /\ detection.result.heartRate <= 240

\* a result for a spectrum in which a higher pass-band bin ties with the
\* peak
C18_Witness ==
    /\ detection.called /\ detection.result.found
    /\ \E fft \in {simpleFFT(Filtered)} :
       \E peak \in {PeakBin(fft, Len(detector.signalHistory))} :
           /\ peak # -1
           /\ \E j \in PassbandBins(Len(detector.signalHistory)) :
                  j > peak /\ fft[j + 1] = fft[peak + 1]
           /\ detection.result.heartRate =
                  FxRound(ExpectedBpm(fft, Len(detector.signalHistory)))

\* C19: every result returned by getResult over a buffer of at least
\* MIN_SAMPLES samples has hrv within [20, 100], confidence within [0, 1]
\* and signalStrength within [0, 1].
C19_ResultWithinRanges ==
    (detection.called /\ Len(detector.signalHistory) >= MIN_SAMPLES) =>
        /\ detection.result.found
        /\ detection.result.hrv >= 20 /\ detection.result.hrv <= 100
        /\ detection.result.confidence >= 0 /\ detection.result.confidence <= FX
        /\ detection.result.signalStrength >= 0
        /\ detection.result.signalStrength <= FX

\* a result whose scaled rmssd and whose deviation both exceed their ranges
\* and are returned at the upper bounds
C19_Witness ==
    /\ detection.called /\ detection.result.found
    /\ Len(detector.signalHistory) >= MIN_SAMPLES
    /\ calculateHRV_Unbounded(Filtered) > 100 * FX
    /\ StdDev(Filtered) > 10 * FX
    /\ detection.result.hrv = 100
    /\ detection.result.confidence = FX

\* C20: whatever the order in which the frame callback and the polling
\* getResult() are run, every read of one getResult() call sees the buffer
\* as its first read saw it, and neither getResult() nor the signal-strength
\* computation reads a buffer longer than MAX_SAMPLES.
C20_ReadsOfOneWholeBuffer ==
    /\ \A i \in 1..Len(task.reads) :
           /\ task.reads[i] = task.reads[1]
           /\ Len(task.reads[i]) <= MAX_SAMPLES
    /\ Len(task.strengthRead) <= MAX_SAMPLES
    /\ detection.called =>
           detection.samples = Len(detector.signalHistory)

\* a getResult() call that returned a result over a full buffer from which
\* samples had been shifted out, after the frame callback read its strength
C20_Witness ==
    /\ detection.called /\ detection.result.found
    /\ Len(task.reads) = 3
    /\ Len(task.reads[1]) = MAX_SAMPLES
    /\ detector.frameCount > MAX_SAMPLES
    /\ Len(task.strengthRead) = MAX_SAMPLES

\* a step that is the call of start()
StartCalled == startPc = "idle" /\ startPc' = "getUserMedia"

\* C21: between one call of start() and the next the buffer never gets
\* shorter, so that a getResult() that returned a result is followed only by
\* getResult() calls that return one.
C21_LengthNeverDecreasesInSession ==
    [][StartCalled \/
       Len(detector'.signalHistory) >= Len(detector.signalHistory)]_vars

\* C22: a getResult() call leaves the buffer, frameCount and the running
\* flag as they were, and a second call with no frame in between returns the
\* result of the first.
C22_GetResultReadOnly ==
    [][detection'.called =>
          /\ detector' = detector
          /\ detection.called => detection'.result = detection.result]_vars

\* getResult() has returned a result while the detector runs, and the buffer
\* still gives that result
C22_Witness ==
    /\ detection.called /\ detection.result.found
    /\ detector.isRunning /\ detector.frameCount > MIN_SAMPLES
    /\ detection.samples = Len(detector.signalHistory)
    /\ \A again \in {getResult(detector.signalHistory)} :
           again = detection.result

\* C23: whatever the order in which the requests of one day for one user
\* pass their awaits, generateProactiveAlert returns at most one alert
\* message that day.
C23_OneAlertPerDay == alertsGenerated <= 1

\* request i is answered in this step
AlertAnswered(i) ==
    alertRequests[i].pc # "done" /\ alertRequests'[i].pc = "done"

\* the answer of request i carries an alert message
AlertSent(reply) ==
    reply.status = 200 /\ reply.data # << >> /\ reply.data[1].alerted

\* C24: POST /api/health/alert sets the alerted-today flag to true only in
\* the request that got an alert message from generateProactiveAlert: a
\* request answered with no alert, with alreadyAlerted or, generation having
\* thrown, with 500 leaves the flag as it was.
C24_FlagSetAfterGeneration ==
    [][/\ dailyAlertsTable' # dailyAlertsTable =>
             /\ dailyAlertsTable' = Some(TRUE)
             /\ alertsGenerated >= 1
             /\ \E i \in 1..Len(alertRequests) :
                    /\ alertRequests[i].pc = "setFlag"
                    /\ AlertAnswered(i)
                    /\ AlertSent(alertRequests'[i].reply)
       /\ \A i \in 1..Len(alertRequests) :
             /\ (AlertAnswered(i) /\ ~AlertSent(alertRequests'[i].reply))
                    => dailyAlertsTable' = dailyAlertsTable
             /\ (AlertAnswered(i) /\ alertRequests[i].pc = "generate")
                    => alertRequests'[i].reply.status = 500]_vars

\* generation threw for one request, which was answered 500, and another
\* request then got a message and set the flag
C24_Witness ==
    /\ Len(alertRequests) = 2
    /\ alertRequests[1].pc = "done" /\ alertRequests[1].reply.status = 500
    /\ alertRequests[2].pc = "done" /\ AlertSent(alertRequests[2].reply)
    /\ dailyAlertsTable = Some(TRUE)
    /\ alertsGenerated = 1

\* C25: the readings history holds at most one reading for a date: updating
\* today's reading changes the reading there is and adds none, so
\* calculateCSS walks one reading a day.
C25_OneReadingPerDate ==
    /\ \A i, j \in 1..Len(readingsTable) :
           i # j => readingsTable[i].date # readingsTable[j].date
    /\ CssReplied =>
           \A i, j \in 1..Len(CssReadings) :
              i # j => CssReadings[i].date # CssReadings[j].date

\* C26: when stop() was called after the last call of start() and that
\* start() has since completed, the detector is not running, no frame
\* callback is scheduled and the tracks of the stream are stopped.
C26_StopEffective ==
    (lastCall = "stop" /\ startPc = "idle") =>
        /\ ~detector.isRunning
        /\ ~detector.animationFrame
        /\ detector.stream = "null"

\* C27: no baseline with hrv 0 is stored by any sequence of requests, and
\* none reaches calculateCSS.
C27_NoZeroBaselineStored ==
    /\ baselineRow # Absent => baselineRow[1].hrv # J(0)
    /\ CssReplied => CssBaseline.hrv # J(0)

\* the last count elements of list
LastOf(list, count) == SubSeq(list, Len(list) - count + 1, Len(list))

\* the list holds the readings of the last days up to LastDate, oldest first
MostRecentReadings(list) ==
    \A i \in 1..Len(list) : list[i].date = LastDate(list) - Len(list) + i

\* C28: the list the in-memory store keeps for a user has at most 30
\* readings, the most recent min(n, 30) of the n added, in insertion order;
\* getReadings(userId, days) returns the last min(days, length) of them,
\* oldest first, and the empty list for an unknown user.
C28_MemoryStoreKeepsRecent ==
    /\ \A list \in {DataStore_get(memoryReadings, User)} :
           /\ Len(list) <= KEPT_READINGS
           /\ Len(list) = Min2(LastDate(list), KEPT_READINGS)
           /\ MostRecentReadings(list)
    /\ (memoryResult.called /\ memoryResult.userId = User
          /\ memoryResult.days # Absent) =>
           \A list \in {DataStore_get(memoryReadings, User)} :
              memoryResult.value =
                  LastOf(list, Min2(memoryResult.days[1], Len(list)))
    /\ (memoryResult.called /\ memoryResult.userId # User) =>
           memoryResult.value = << >>

\* the step is the continuation of start() after video.play()
StartCompleted == startPc = "play" /\ startPc' = "idle" /\ detector'.isRunning

\* C29: after every step the buffer holds min(frameCount, MAX_SAMPLES)
\* samples; start() takes frameCount and the buffer back to nothing, a
\* processed frame adds one to frameCount and one sample to the buffer, and
\* a frame that finds the video not ready or the detector stopped changes
\* neither.
C29_LengthTracksFrameCount ==
    [][/\ Len(detector'.signalHistory) =
             Min2(detector'.frameCount, MAX_SAMPLES)
       /\ StartCompleted =>
             /\ detector'.frameCount = (IF videoReady THEN 1 ELSE 0)
             /\ Len(detector'.signalHistory) = detector'.frameCount
       /\ (~StartCompleted /\ detector.isRunning /\ videoReady
              /\ detector'.isRunning /\ detector' # detector) =>
             /\ detector'.frameCount = detector.frameCount + 1
             /\ detector'.signalHistory[Len(detector'.signalHistory)] =
                    Scene(scene, detector.frameCount)
       /\ (~StartCompleted /\ (~detector.isRunning \/ ~videoReady)) =>
             /\ detector'.frameCount = detector.frameCount
             /\ detector'.signalHistory = detector.signalHistory]_vars

\* a detector started again after a stop has processed frames past the
\* capacity of its buffer
C29_Witness ==
    /\ detector.isRunning /\ videoReady
    /\ lastCall = "start"
    /\ detector.frameCount = MAX_SAMPLES + 2
    /\ Len(detector.signalHistory) = MAX_SAMPLES
    /\ page.frameCount = detector.frameCount

(***************************************************************************)
(* C30: a capture session whose polling timer was set always terminates.   *)
(* The callback that finds the duration elapsed clears the timer, stops    *)
(* the detector, sets capturing to false and sets an HRV value: that of    *)
(* the final result when its confidence is above 0.2, otherwise 50 with    *)
(* heart rate 72 and the low-confidence error message.  While the timer    *)
(* is set such a callback eventually comes.                                *)
(***************************************************************************)
ElapsedTick == page.progressInterval /\ page'.progress = 100

CaptureOver ==
    /\ ~page.progressInterval
    /\ ~detector.isRunning /\ ~detector.animationFrame
    /\ detector.stream = "null"
    /\ ~page.isCapturing
    /\ page.hrv # Absent

C30_CaptureTerminates ==
    /\ [][ElapsedTick =>
            /\ CaptureOver'
            /\ \A finalResult \in {getResult(detector.signalHistory)} :
                  IF Confident(finalResult)
                  THEN /\ page'.hrv = Some(finalResult.hrv)
                       /\ page'.heartRate = Some(finalResult.heartRate)
                  ELSE /\ page'.hrv = Some(50)
                       /\ page'.heartRate = Some(72)
                       /\ page'.error = LowConfidenceError]_vars
    /\ page.progressInterval ~> CaptureOver

C30_Witness ==
    /\ CaptureOver /\ page.mounted /\ page.progress = 100
    /\ lastCall = "stop" /\ startPc = "idle"
    /\ page.error = "" /\ page.hrv # Some(50)
    /\ Len(detector.signalHistory) >= MIN_SAMPLES

====
